---- MODULE Spec2Model ----
(***************************************************************************)
(* Evolution API integration for Home Assistant: the gateway client and    *)
(* its payloads (api.py), the send-text and send-poll service handlers and *)
(* the refresh-groups service (__init__.py), the refresh-groups and        *)
(* refresh-connection buttons (button.py), the state cache (storage.py),   *)
(* the config flow (config_flow.py), the groups sensor (sensor.py) and the *)
(* media player (media_player.py).                                         *)
(*                                                                         *)
(* The specifications share the variables:                                 *)
(*   SpecClient     one gateway command at a time, from the call to the    *)
(*                  outcome the caller gets, and the config flow's         *)
(*                  connection test;                                       *)
(*   Spec           the state cache of each config entry, the coroutines   *)
(*                  that refresh and write it, and the event bus;          *)
(*   SpecLifecycle  setup, unload and reload of the config entries, the    *)
(*                  registration of the services and the groups sensor,    *)
(*                  with a button refresh in flight; SpecLifecycleFair     *)
(*                  adds the fairness of the awaits of the refresh;        *)
(*   SpecPlayer     the media player and its async_play_media invocations. *)
(*                                                                         *)
(* Python strings that the code inspects are sequences of one-character    *)
(* strings; dicts are functions whose domain is the set of keys.           *)
(* The constants ATTR_TARGET and ATTR_INSTANCE_ID that __init__.py imports *)
(* are not defined in const.py; the model takes them to be "target" and    *)
(* "instance_id", the literals media_player.py uses for the same fields.   *)
(***************************************************************************)
EXTENDS Integers, Sequences, FiniteSets, TLC

VARIABLES
    call,       \* SpecClient: the command in progress (operation, arguments, position)
    wire,       \* SpecClient: the HTTP requests issued for the command, in order
    outcome,    \* SpecClient: what the caller of the command gets
    durable,    \* Spec: the document Store keeps on disk for each config entry
    storage,    \* Spec: the EvolutionApiStorage object of each config entry
    hass_data,  \* Spec: hass.data[DOMAIN], the runtime registry
    setup_pc,   \* Spec: position of async_setup_entry for each config entry
    tasks,      \* Spec: the coroutines running a refresh or a cache operation
    bus,        \* Spec: the events fired on hass.bus, in order
    now,        \* Spec: the wall clock read by dt_util.now()
    reads,      \* Spec: how often the durable store of each entry has been read in this process
    flow,       \* SpecClient: what the config flow's user step returned
    services,   \* SpecLifecycle: the services registered with hass.services
    sensor,     \* SpecLifecycle: the groups sensor of each config entry
    player      \* SpecPlayer: the media player entity and its async_play_media invocations

clientVars == <<call, wire, outcome, flow>>
storeVars == <<durable, storage, hass_data, setup_pc, tasks, bus, now, reads>>
hostVars == <<services, sensor, player>>
vars == <<call, wire, outcome, durable, storage, hass_data, setup_pc, tasks, bus, now, reads,
          flow, services, sensor, player>>

-----------------------------------------------------------------------------
(* Python values *)

None == <<"None">>
EmptyDict == <<>>

\* d[k] = v on a dict
DictSet(d, k, v) == [x \in (DOMAIN d) \cup {k} |-> IF x = k THEN v ELSE d[x]]

\* d.get(k, default)
DictGet(d, k, default) == IF k \in DOMAIN d THEN d[k] ELSE default

\* An optional integer argument (int | None)
NoneInt == [some |-> FALSE, v |-> 0]
SomeInt(n) == [some |-> TRUE, v |-> n]

\* An optional string argument (str | None)
NoneStr == [some |-> FALSE, v |-> ""]
SomeStr(x) == [some |-> TRUE, v |-> x]

\* The truth value of an optional argument in "if delay:", "if caption:"
TruthyInt(x) == x.some /\ x.v # 0
TruthyStr(x) == x.some /\ x.v # ""

\* str.endswith
EndsWith(s, suffix) ==
    /\ Len(s) >= Len(suffix)
    /\ SubSeq(s, Len(s) - Len(suffix) + 1, Len(s)) = suffix

-----------------------------------------------------------------------------
(* Gateway client: api.py *)

API_ENDPOINT_CONNECTION_STATE == "/instance/connectionState"
API_ENDPOINT_SEND_TEXT == "/message/sendText"
API_ENDPOINT_FETCH_ALL_GROUPS == "/group/fetchAllGroups"
API_ENDPOINT_SEND_MEDIA == "/message/sendMedia"
API_ENDPOINT_SEND_AUDIO == "/message/sendWhatsAppAudio"
API_ENDPOINT_SEND_STICKER == "/message/sendSticker"
API_ENDPOINT_SEND_LOCATION == "/message/sendLocation"
API_ENDPOINT_SEND_CONTACT == "/message/sendContact"
API_ENDPOINT_SEND_POLL == "/message/sendPoll"

\* What a caller gets: a returned value or a raised exception.
NoValue == [type |-> "none", status |-> 0, text |-> "", list |-> <<>>]
Return(v) == [kind |-> "return", exc |-> "", msg |-> <<>>, cause |-> "", value |-> v]
Raise(exc, msg, cause) == [kind |-> "raise", exc |-> exc, msg |-> msg, cause |-> cause, value |-> NoValue]
NoOutcome == [kind |-> "none", exc |-> "", msg |-> <<>>, cause |-> "", value |-> NoValue]

\* The exception classes of api.py: the two subclasses and their base.
EvolutionApiError == "EvolutionApiError"
EvolutionApiConnectionError == "EvolutionApiConnectionError"
EvolutionApiAuthError == "EvolutionApiAuthError"

\* except EvolutionApiError: catches the base class and its subclasses
IsEvolutionApiError(exc) ==
    exc \in {EvolutionApiError, EvolutionApiConnectionError, EvolutionApiAuthError}

\* Response bodies the gateway may send, and what json.loads makes of them.
\* OpenBody and CloseBody are answers of the connectionState endpoint.
OpenBody == "{\"instance\":{\"state\":\"open\"}}"
CloseBody == "{\"instance\":{\"state\":\"close\"}}"
Bodies == {"{}", "[\"g1\"]", "", "<html>", OpenBody, CloseBody}

JsonLoads(text) ==
    CASE text \in {"{}", OpenBody, CloseBody}
                            -> [ok |-> TRUE, value |-> [type |-> "dict", status |-> 0, text |-> text, list |-> <<>>]]
      [] text = "[\"g1\"]"  -> [ok |-> TRUE, value |-> [type |-> "list", status |-> 0, text |-> text, list |-> <<"g1">>]]
      [] OTHER              -> [ok |-> FALSE, value |-> NoValue]

\* response.json(): ContentTypeError unless the content type is JSON, None
\* for an empty body, json.loads otherwise (JSONDecodeError on malformed text).
ResponseJson(response) ==
    IF response.ctype # "application/json" THEN Raise("ContentTypeError", <<>>, "")
    ELSE IF response.body = "" THEN Return(NoValue)
    ELSE IF JsonLoads(response.body).ok THEN Return(JsonLoads(response.body).value)
    ELSE Raise("JSONDecodeError", <<>>, "")

\* EvolutionApiClient._handle_response
HandleResponse(response) ==
    IF response.status = 401 THEN Raise(EvolutionApiAuthError, <<"Invalid API key">>, "")
    ELSE IF response.status = 404 THEN Raise(EvolutionApiError, <<"Instance not found">>, "")
    ELSE IF response.status >= 400
        THEN Raise(EvolutionApiError, <<"API error ", response.status, ": ", response.body>>, "")
    ELSE IF ResponseJson(response).exc = "ContentTypeError"
        THEN Return([type |-> "fallback", status |-> response.status,
                     text |-> response.body, list |-> <<>>])
    ELSE ResponseJson(response)

\* method.upper()
Upper(method) ==
    CASE method = "get" -> "GET"
      [] method = "post" -> "POST"
      [] method = "put" -> "PUT"
      [] method = "delete" -> "DELETE"
      [] method = "patch" -> "PATCH"
      [] OTHER -> method

\* The request _request issues: the URL, and the JSON body for POST and PUT.
BuildRequest(method, endpoint, data, include_instance) ==
    [method |-> Upper(method), endpoint |-> endpoint, instance |-> include_instance,
     query |-> "",
     json |-> IF Upper(method) \in {"POST", "PUT"} THEN data ELSE EmptyDict]

\* A _request that tries once more after a transport failure.
RequestTransportFailure_Retry(c, w, err) ==
    IF Len(w) < 2
    THEN [call |-> c, wire |-> Append(w, w[Len(w)]), outcome |-> NoOutcome]
    ELSE [call |-> [c EXCEPT !.pc = "done", !.transport = err],
          wire |-> w,
          outcome |-> Raise(EvolutionApiConnectionError, <<"Connection error: ", err>>, err)]

\* The except clauses of _request: one attempt, reported as a connection error.
RequestTransportFailure(c, w, err) ==
    [call |-> [c EXCEPT !.pc = "done", !.transport = err],
     wire |-> w,
     outcome |-> IF err = "TimeoutError"
                 THEN Raise(EvolutionApiConnectionError, <<"Timeout connecting to API">>, err)
                 ELSE Raise(EvolutionApiConnectionError, <<"Connection error: ", err>>, err)]

\* The except clause of fetch_all_groups.
FetchTransportFailure(c, w, err) ==
    [call |-> [c EXCEPT !.pc = "done", !.transport = err],
     wire |-> w,
     outcome |-> Raise(EvolutionApiConnectionError, <<"Error fetching groups: ", err>>, err)]

\* result.get("instance", {}).get("state", ""): a decoded dict is kept as
\* its text; the fallback dict has the keys status and message only.
InstanceState(value) ==
    CASE value.type = "dict" /\ value.text = OpenBody -> "open"
      [] value.type = "dict" /\ value.text = CloseBody -> "close"
      [] OTHER -> ""

\* state.upper()
StateUpper(state) ==
    CASE state = "open" -> "OPEN"
      [] state = "close" -> "CLOSE"
      [] OTHER -> state

\* EvolutionApiClient.check_connection, given what get_connection_state
\* returned or raised: every EvolutionApiError becomes False; a result that
\* is no dict (a list, None) has no get.
CheckConnection(r) ==
    IF r.kind = "raise"
    THEN IF IsEvolutionApiError(r.exc)
         THEN [kind |-> "return", exc |-> "", connected |-> FALSE]
         ELSE [kind |-> "raise", exc |-> r.exc, connected |-> FALSE]
    ELSE IF r.value.type \notin {"dict", "fallback"}
         THEN [kind |-> "raise", exc |-> "AttributeError", connected |-> FALSE]
         ELSE [kind |-> "return", exc |-> "",
               connected |-> (StateUpper(InstanceState(r.value)) = "OPEN")]

\* ConfigFlow._test_connection, given the outcome of check_connection
TestConnection(cc) ==
    IF cc.kind = "return"
    THEN [kind |-> "return", exc |-> "",
          result |-> IF cc.connected THEN "success" ELSE "not_connected"]
    ELSE IF cc.exc = EvolutionApiAuthError
         THEN [kind |-> "return", exc |-> "", result |-> "auth_error"]
    ELSE IF IsEvolutionApiError(cc.exc) \/ cc.exc = "ClientError"
         THEN [kind |-> "return", exc |-> "", result |-> "connection_error"]
    ELSE [kind |-> "raise", exc |-> cc.exc, result |-> ""]

\* ConfigFlow.async_step_user with a user_input, given the outcome of
\* _test_connection: the entry is created or the form is shown with an error.
StepUser(tc) ==
    IF tc.kind = "raise" THEN [type |-> "form", errors |-> [base |-> "unknown"]]
    ELSE IF tc.result = "success" THEN [type |-> "create_entry", errors |-> EmptyDict]
    ELSE IF tc.result = "auth_error" THEN [type |-> "form", errors |-> [base |-> "invalid_auth"]]
    ELSE IF tc.result = "not_connected"
         THEN [type |-> "form", errors |-> [base |-> "instance_not_connected"]]
    ELSE [type |-> "form", errors |-> [base |-> "cannot_connect"]]

\* EvolutionApiClient.send_text: the payload
SendTextPayload(number, text, delay, link_preview, mention_all, mentioned) ==
    LET p0 == [number |-> number, text |-> text, linkPreview |-> link_preview]
        p1 == IF delay.some /\ delay.v # 0 THEN DictSet(p0, "delay", delay.v) ELSE p0
        p2 == IF mention_all THEN DictSet(p1, "mentionsEveryOne", TRUE) ELSE p1
        p3 == IF mentioned # None /\ mentioned # <<>> THEN DictSet(p2, "mentioned", mentioned) ELSE p2
    IN p3

\* fetch_all_groups: isinstance(result, list)
FetchResult_NoCheck(result) == result

FetchResult(result) ==
    IF result.value.type = "list" THEN result
    ELSE Return([type |-> "list", status |-> 0, text |-> "", list |-> <<>>])

\* send_media: mimetype_map.get(media_type, "application/octet-stream")
Mimetype_NoDocument(media_type) ==
    CASE media_type = "image" -> "image/png"
      [] media_type = "video" -> "video/mp4"
      [] OTHER -> "application/octet-stream"

Mimetype(media_type) ==
    CASE media_type = "image" -> "image/png"
      [] media_type = "video" -> "video/mp4"
      [] media_type = "document" -> "application/pdf"
      [] OTHER -> "application/octet-stream"

\* An optional key of a payload: payload[key] = value under "if value:"
SetIfTruthyStr_Always(p, key, x) == DictSet(p, key, x.v)

SetIfTruthyStr(p, key, x) == IF TruthyStr(x) THEN DictSet(p, key, x.v) ELSE p

SetIfTruthyInt(p, key, x) == IF TruthyInt(x) THEN DictSet(p, key, x.v) ELSE p

\* EvolutionApiClient.send_media: the payload
SendMediaPayload(number, media_url, media_type, caption, filename, delay) ==
    LET p0 == [number |-> number, mediatype |-> media_type, media |-> media_url]
        p1 == SetIfTruthyStr(p0, "caption", caption)
        p2 == SetIfTruthyStr(p1, "fileName", filename)
        p3 == SetIfTruthyInt(p2, "delay", delay)
    IN DictSet(p3, "mimetype", Mimetype(media_type))

\* EvolutionApiClient.send_audio: the payload
SendAudioPayload(number, audio_url, delay) ==
    SetIfTruthyInt([number |-> number, audio |-> audio_url], "delay", delay)

\* EvolutionApiClient.send_sticker: the payload
SendStickerPayload(number, sticker_url, delay) ==
    SetIfTruthyInt([number |-> number, sticker |-> sticker_url], "delay", delay)

\* EvolutionApiClient.send_location: the payload
SendLocationPayload(number, latitude, longitude, name, address, delay) ==
    LET p0 == [number |-> number, latitude |-> latitude, longitude |-> longitude]
        p1 == SetIfTruthyStr(p0, "name", name)
        p2 == SetIfTruthyStr(p1, "address", address)
    IN SetIfTruthyInt(p2, "delay", delay)

\* EvolutionApiClient.send_contact: the payload
SendContactPayload(number, contact_name, contact_phone, contact_email, contact_organization) ==
    LET c0 == [fullName |-> contact_name, phoneNumber |-> contact_phone]
        c1 == SetIfTruthyStr(c0, "email", contact_email)
        c2 == SetIfTruthyStr(c1, "organization", contact_organization)
    IN [number |-> number, contact |-> <<c2>>]

\* EvolutionApiClient.send_poll: max_selections: int = 1
DefaultMaxSelections == 1

\* EvolutionApiClient.send_poll: the payload
SendPollPayload(number, poll_name, options, max_selections, delay) ==
    SetIfTruthyInt([number |-> number, name |-> poll_name,
                    selectableCount |-> max_selections, values |-> options],
                   "delay", delay)

\* str.split(","): the pieces between the commas, in order
RECURSIVE Split(_, _)
Split(str, sep) ==
    IF \E i \in 1..Len(str) : str[i] = sep
    THEN LET i == CHOOSE j \in 1..Len(str) :
                     str[j] = sep /\ \A k \in 1..(j - 1) : str[k] # sep
         IN <<SubSeq(str, 1, i - 1)>> \o Split(SubSeq(str, i + 1, Len(str)), sep)
    ELSE <<str>>

\* str.strip(): without the whitespace at both ends
Whitespace == {" ", "\t", "\n"}
RECURSIVE Strip(_)
Strip(str) ==
    IF str = <<>> THEN str
    ELSE IF str[1] \in Whitespace THEN Strip(Tail(str))
    ELSE IF str[Len(str)] \in Whitespace THEN Strip(SubSeq(str, 1, Len(str) - 1))
    ELSE str

\* async_send_poll: [opt.strip() for opt in options_str.split(",") if opt.strip()]
PollOptions_Unstripped(options_str) ==
    LET parts == Split(options_str, ",")
    IN SelectSeq(parts, LAMBDA opt : Strip(opt) # <<>>)

PollOptions(options_str) ==
    LET parts == Split(options_str, ",")
        stripped == [i \in 1..Len(parts) |-> Strip(parts[i])]
    IN SelectSeq(stripped, LAMBDA opt : opt # <<>>)

\* The parameters send_poll accepts, and the keyword arguments the service
\* handler async_send_poll passes to it.
SendPollParams == {"number", "poll_name", "options", "max_selections", "delay"}
HandlerSendPollKwargs ==
    {"number", "poll_name", "options", "max_selections", "delay", "instance_id"}

\* SERVICE_SEND_POLL_SCHEMA: the required keys, the allowed keys, and the
\* defaults it fills in.
SendPollSchemaKeys ==
    {"target", "instance_id", "poll_name", "poll_options", "max_selections", "delay"}
SendPollSchemaAccepts(data) ==
    /\ {"target", "poll_name", "poll_options"} \subseteq DOMAIN data
    /\ DOMAIN data \subseteq SendPollSchemaKeys
SendPollSchemaDefaults(data) ==
    LET d1 == IF "max_selections" \in DOMAIN data THEN data
              ELSE DictSet(data, "max_selections", DefaultMaxSelections)
    IN IF "delay" \in DOMAIN d1 THEN d1 ELSE DictSet(d1, "delay", 0)

\* The parameters send_text accepts, and the keyword arguments the service
\* handler async_send_text passes to it.
SendTextParams == {"number", "text", "delay", "link_preview", "mention_all", "mentioned"}
HandlerSendTextKwargs == {"number", "text", "delay", "link_preview", "mention_all", "instance_id"}

\* SERVICE_SEND_TEXT_SCHEMA: target and message are required, no other key
\* than the listed ones is allowed.
SendTextSchemaKeys == {"target", "instance_id", "message", "delay", "link_preview", "mention_all"}
SendTextSchemaAccepts(data) ==
    /\ {"target", "message"} \subseteq DOMAIN data
    /\ DOMAIN data \subseteq SendTextSchemaKeys

-----------------------------------------------------------------------------
(* SpecClient: inputs *)

G_US == <<"@", "g", ".", "u", "s">>
Phone == <<"5", "5", "1">>
GroupBare == <<"1", "2", "3">>
GroupJid == GroupBare \o G_US
EmptyStr == <<>>

Statuses == {200, 204, 302, 400, 401, 403, 404, 500}
ContentTypes == {"application/json", "text/html"}
Methods == {"GET", "post", "PUT", "delete", "PATCH"}
TransportErrors == {"TimeoutError", "ClientError"}
Responses == [status : Statuses, ctype : ContentTypes, body : Bodies]
Delays == {NoneInt, SomeInt(0), SomeInt(1200)}

\* The recipients a caller can mean: a phone number, a group identifier
\* (with or without its suffix), both, or none.
Recipients == {
    [phone |-> Phone, group |-> None],
    [phone |-> None, group |-> GroupBare],
    [phone |-> None, group |-> GroupJid],
    [phone |-> Phone, group |-> GroupBare],
    [phone |-> None, group |-> None] }

\* The service data a caller builds for a recipient: the schema has the one
\* field target; a caller that means both has no field for the second one but
\* the pre-target keys, and a caller that means none sends an empty target or
\* leaves it out.
ServiceData(r, message, omit) ==
    LET d0 == [message |-> message]
        d1 == IF r.phone # None /\ r.group # None
              THEN DictSet(DictSet(d0, "target", r.phone), "group_id", r.group)
              ELSE IF r.phone # None THEN DictSet(d0, "target", r.phone)
              ELSE IF r.group # None THEN DictSet(d0, "target", r.group)
              ELSE IF omit THEN d0
              ELSE DictSet(d0, "target", EmptyStr)
    IN d1

\* The optional arguments of the send commands
OptStrs == {NoneStr, SomeStr(""), SomeStr("x")}
MediaTypes == {"image", "video", "document", "audio"}
MentionedLists == {None, <<>>, <<Phone>>}
MaxSelections == {NoneInt, SomeInt(2)}

\* The option strings a caller of the send_poll service enters.
PollOptionStrings == {
    <<"A", ",", " ", "B", " ", ",", ",", "C">>,
    <<"B", ",", "A", ",", "B">>,
    <<" ", ",">>,
    <<"A", " ", "B">> }

\* The option lists a caller of send_poll passes.
PollOptionLists == {<<<<"A">>, <<"B">>>>, <<>>}

\* The arguments of a command as the caller passed them.
NoArgs == [get_participants |-> FALSE, media_type |-> "",
           caption |-> NoneStr, filename |-> NoneStr, name |-> NoneStr, address |-> NoneStr,
           email |-> NoneStr, organization |-> NoneStr,
           delay |-> NoneInt, link_preview |-> TRUE, mention_all |-> FALSE, mentioned |-> None,
           poll_options |-> <<>>, options |-> <<>>, max_selections |-> NoneInt]

NoCall == [pc |-> "idle", op |-> "none", transport |-> "none",
           response |-> [status |-> 0, ctype |-> "", body |-> ""],
           recipient |-> [phone |-> None, group |-> None],
           number |-> None, validated |-> FALSE, args |-> NoArgs]

\* No user step of the config flow has returned.
NoFlow == [type |-> "none", errors |-> EmptyDict]

ClientInit ==
    /\ call = NoCall
    /\ wire = <<>>
    /\ outcome = NoOutcome
    /\ flow = NoFlow

\* The service registry and the sensors are not running under SpecClient,
\* Spec and SpecPlayer; the media player runs under SpecPlayer only.
LifecycleIdle ==
    /\ services = EmptyDict
    /\ sensor = <<>>

PlayerIdle == player = <<>>

HostIdle == LifecycleIdle /\ PlayerIdle

-----------------------------------------------------------------------------
(* SpecClient: actions *)

\* The state cache part is not running under SpecClient.
StoreIdle ==
    /\ durable = <<>>
    /\ storage = <<>>
    /\ hass_data = <<>>
    /\ setup_pc = <<>>
    /\ tasks = <<>>
    /\ bus = <<>>
    /\ now = 0
    /\ reads = <<>>

\* EvolutionApiClient._request, up to the await of the HTTP call
Request(method, endpoint) ==
    /\ call.pc = "idle"
    /\ IF Upper(method) \in {"GET", "POST", "PUT", "DELETE"}
       THEN /\ call' = [call EXCEPT !.pc = "awaiting", !.op = "_request"]
            /\ wire' = Append(wire, BuildRequest(method, endpoint, EmptyDict, TRUE))
            /\ outcome' = NoOutcome
       ELSE /\ call' = [call EXCEPT !.pc = "done", !.op = "_request"]
            /\ wire' = wire
            /\ outcome' = Raise("ValueError", <<"Unsupported HTTP method: ", method>>, "")
    /\ UNCHANGED <<flow, storeVars, hostVars>>

\* EvolutionApiClient.fetch_all_groups, up to the await of the HTTP call
FetchAllGroups(get_participants) ==
    /\ call.pc = "idle"
    /\ call' = [call EXCEPT !.pc = "awaiting", !.op = "fetch_all_groups",
                            !.args = [NoArgs EXCEPT !.get_participants = get_participants]]
    /\ wire' = Append(wire,
          [method |-> "GET", endpoint |-> API_ENDPOINT_FETCH_ALL_GROUPS, instance |-> TRUE,
           query |-> IF get_participants THEN "getParticipants=true" ELSE "getParticipants=false",
           json |-> EmptyDict])
    /\ outcome' = NoOutcome
    /\ UNCHANGED <<flow, storeVars, hostVars>>

\* EvolutionApiClient.send_text called by a caller that holds the client
SendText(number, delay, link_preview, mention_all, mentioned) ==
    /\ call.pc = "idle"
    /\ call' = [call EXCEPT !.pc = "awaiting", !.op = "send_text", !.number = number,
                            !.args = [NoArgs EXCEPT !.delay = delay, !.link_preview = link_preview,
                                                    !.mention_all = mention_all,
                                                    !.mentioned = mentioned]]
    /\ wire' = Append(wire,
          BuildRequest("POST", API_ENDPOINT_SEND_TEXT,
                       SendTextPayload(number, "hi", delay, link_preview, mention_all, mentioned),
                       TRUE))
    /\ outcome' = NoOutcome
    /\ UNCHANGED <<flow, storeVars, hostVars>>

\* EvolutionApiClient.send_media
SendMedia(media_type, caption, filename, delay) ==
    /\ call.pc = "idle"
    /\ call' = [call EXCEPT !.pc = "awaiting", !.op = "send_media", !.number = Phone,
                            !.args = [NoArgs EXCEPT !.media_type = media_type, !.caption = caption,
                                                    !.filename = filename, !.delay = delay]]
    /\ wire' = Append(wire,
          BuildRequest("POST", API_ENDPOINT_SEND_MEDIA,
                       SendMediaPayload(Phone, "http://m", media_type, caption, filename, delay),
                       TRUE))
    /\ outcome' = NoOutcome
    /\ UNCHANGED <<flow, storeVars, hostVars>>

\* EvolutionApiClient.send_audio and EvolutionApiClient.send_sticker
SendAudioOrSticker(op, delay) ==
    /\ call.pc = "idle"
    /\ call' = [call EXCEPT !.pc = "awaiting", !.op = op, !.number = Phone,
                            !.args = [NoArgs EXCEPT !.delay = delay]]
    /\ wire' = Append(wire,
          IF op = "send_audio"
          THEN BuildRequest("POST", API_ENDPOINT_SEND_AUDIO,
                            SendAudioPayload(Phone, "http://a", delay), TRUE)
          ELSE BuildRequest("POST", API_ENDPOINT_SEND_STICKER,
                            SendStickerPayload(Phone, "http://s", delay), TRUE))
    /\ outcome' = NoOutcome
    /\ UNCHANGED <<flow, storeVars, hostVars>>

\* EvolutionApiClient.send_location
SendLocation(name, address, delay) ==
    /\ call.pc = "idle"
    /\ call' = [call EXCEPT !.pc = "awaiting", !.op = "send_location", !.number = Phone,
                            !.args = [NoArgs EXCEPT !.name = name, !.address = address,
                                                    !.delay = delay]]
    /\ wire' = Append(wire,
          BuildRequest("POST", API_ENDPOINT_SEND_LOCATION,
                       SendLocationPayload(Phone, 3, 101, name, address, delay), TRUE))
    /\ outcome' = NoOutcome
    /\ UNCHANGED <<flow, storeVars, hostVars>>

\* EvolutionApiClient.send_contact
SendContact(email, organization) ==
    /\ call.pc = "idle"
    /\ call' = [call EXCEPT !.pc = "awaiting", !.op = "send_contact", !.number = Phone,
                            !.args = [NoArgs EXCEPT !.email = email,
                                                    !.organization = organization]]
    /\ wire' = Append(wire,
          BuildRequest("POST", API_ENDPOINT_SEND_CONTACT,
                       SendContactPayload(Phone, "Ann", "552", email, organization), TRUE))
    /\ outcome' = NoOutcome
    /\ UNCHANGED <<flow, storeVars, hostVars>>

\* EvolutionApiClient.send_poll called by a caller that holds the client;
\* max_selections takes its default when the caller does not pass it.
SendPoll(options, max_selections, delay) ==
    /\ call.pc = "idle"
    /\ call' = [call EXCEPT !.pc = "awaiting", !.op = "send_poll", !.number = Phone,
                            !.args = [NoArgs EXCEPT !.options = options,
                                                    !.max_selections = max_selections,
                                                    !.delay = delay]]
    /\ wire' = Append(wire,
          BuildRequest("POST", API_ENDPOINT_SEND_POLL,
                       SendPollPayload(Phone, "q", options,
                                       IF max_selections.some THEN max_selections.v
                                       ELSE DefaultMaxSelections,
                                       delay),
                       TRUE))
    /\ outcome' = NoOutcome
    /\ UNCHANGED <<flow, storeVars, hostVars>>

\* The send_poll service: the schema check of the service call, then the
\* handler async_send_poll, which builds the option list from the option
\* string and calls client.send_poll with its keyword arguments.
ServiceSendPoll(options_str, max_selections, omit) ==
    /\ call.pc = "idle"
    /\ LET d0 == [target |-> Phone, poll_name |-> "q"]
           d1 == IF omit THEN d0 ELSE DictSet(d0, "poll_options", options_str)
           d2 == IF max_selections.some THEN DictSet(d1, "max_selections", max_selections.v)
                 ELSE d1
       IN
       IF ~SendPollSchemaAccepts(d2)
       THEN /\ call' = [call EXCEPT !.pc = "done", !.op = "service_send_poll"]
            /\ wire' = wire
            /\ outcome' = Raise("vol.Invalid", <<>>, "")
       ELSE LET data == SendPollSchemaDefaults(d2)
                options == PollOptions(data["poll_options"])
                c == [call EXCEPT !.op = "service_send_poll", !.number = data["target"],
                                  !.validated = TRUE,
                                  !.args = [NoArgs EXCEPT !.poll_options = options_str,
                                                          !.options = options,
                                                          !.max_selections = max_selections]]
            IN
            IF ~(HandlerSendPollKwargs \subseteq SendPollParams)
            THEN /\ call' = [c EXCEPT !.pc = "done"]
                 /\ wire' = wire
                 /\ outcome' = Raise("TypeError", <<"unexpected keyword argument">>, "")
            ELSE /\ call' = [c EXCEPT !.pc = "awaiting"]
                 /\ wire' = Append(wire,
                       BuildRequest("POST", API_ENDPOINT_SEND_POLL,
                                    SendPollPayload(data["target"], data["poll_name"], options,
                                                    data["max_selections"],
                                                    SomeInt(data["delay"])),
                                    TRUE))
                 /\ outcome' = NoOutcome
    /\ UNCHANGED <<flow, storeVars, hostVars>>

\* The send_text service: the schema check of the service call, then the
\* handler async_send_text, which calls client.send_text with its keyword
\* arguments; Python binds them to the parameters before the body runs.
ServiceSendText(r, omit, delay) ==
    /\ call.pc = "idle"
    /\ LET data == ServiceData(r, "hi", omit) IN
       IF ~SendTextSchemaAccepts(data)
       THEN /\ call' = [call EXCEPT !.pc = "done", !.op = "service_send_text", !.recipient = r]
            /\ wire' = wire
            /\ outcome' = Raise("vol.Invalid", <<>>, "")
       ELSE IF ~(HandlerSendTextKwargs \subseteq SendTextParams)
       THEN /\ call' = [call EXCEPT !.pc = "done", !.op = "service_send_text", !.recipient = r,
                                    !.number = data["target"], !.validated = TRUE]
            /\ wire' = wire
            /\ outcome' = Raise("TypeError", <<"unexpected keyword argument">>, "")
       ELSE /\ call' = [call EXCEPT !.pc = "awaiting", !.op = "service_send_text", !.recipient = r,
                                    !.number = data["target"], !.validated = TRUE]
            /\ wire' = Append(wire,
                  BuildRequest("POST", API_ENDPOINT_SEND_TEXT,
                               SendTextPayload(data["target"], data["message"], delay, TRUE, FALSE, None),
                               TRUE))
            /\ outcome' = NoOutcome
    /\ UNCHANGED <<flow, storeVars, hostVars>>

\* The user step of the config flow with a user_input: _test_connection
\* builds a client and awaits check_connection, which awaits
\* get_connection_state, up to the await of the HTTP call.
ConfigFlowStepUser ==
    /\ call.pc = "idle"
    /\ call' = [call EXCEPT !.pc = "awaiting", !.op = "config_flow"]
    /\ wire' = Append(wire, BuildRequest("GET", API_ENDPOINT_CONNECTION_STATE, EmptyDict, TRUE))
    /\ outcome' = NoOutcome
    /\ UNCHANGED <<flow, storeVars, hostVars>>

\* The HTTP call returns a response: _handle_response, and for
\* fetch_all_groups the isinstance check on its result; in the config flow
\* the outcome of get_connection_state goes through check_connection and
\* _test_connection to the user step.
Respond(response) ==
    /\ call.pc = "awaiting"
    /\ call' = [call EXCEPT !.pc = "done", !.response = response]
    /\ outcome' =
          LET result == HandleResponse(response) IN
          IF call.op = "fetch_all_groups" /\ result.kind = "return"
          THEN FetchResult(result)
          ELSE result
    /\ flow' = IF call.op = "config_flow"
               THEN StepUser(TestConnection(CheckConnection(outcome')))
               ELSE flow
    /\ UNCHANGED wire
    /\ UNCHANGED <<storeVars, hostVars>>

\* The HTTP call times out or the connection fails.
TransportFailure(err) ==
    /\ call.pc = "awaiting"
    /\ LET r == IF call.op = "fetch_all_groups"
                THEN FetchTransportFailure(call, wire, err)
                ELSE RequestTransportFailure(call, wire, err) IN
       /\ call' = r.call
       /\ wire' = r.wire
       /\ outcome' = r.outcome
    /\ flow' = IF call.op = "config_flow"
               THEN StepUser(TestConnection(CheckConnection(outcome')))
               ELSE flow
    /\ UNCHANGED <<storeVars, hostVars>>

\* The caller has the outcome; the next command starts from a clean slate.
Finish ==
    /\ call.pc = "done"
    /\ call' = NoCall
    /\ wire' = <<>>
    /\ outcome' = NoOutcome
    /\ flow' = NoFlow
    /\ UNCHANGED <<storeVars, hostVars>>

ClientNext ==
    \/ \E m \in Methods : Request(m, API_ENDPOINT_CONNECTION_STATE)
    \/ \E gp \in BOOLEAN : FetchAllGroups(gp)
    \/ \E n \in {Phone, GroupBare, GroupJid}, d \in Delays, lp \in BOOLEAN, ma \in BOOLEAN,
          m \in MentionedLists : SendText(n, d, lp, ma, m)
    \/ \E mt \in MediaTypes, c \in OptStrs, f \in OptStrs, d \in Delays : SendMedia(mt, c, f, d)
    \/ \E op \in {"send_audio", "send_sticker"}, d \in Delays : SendAudioOrSticker(op, d)
    \/ \E n \in OptStrs, a \in OptStrs, d \in Delays : SendLocation(n, a, d)
    \/ \E em \in OptStrs, org \in OptStrs : SendContact(em, org)
    \/ \E o \in PollOptionLists, ms \in MaxSelections, d \in Delays : SendPoll(o, ms, d)
    \/ \E str \in PollOptionStrings, ms \in MaxSelections, omit \in BOOLEAN :
          ServiceSendPoll(str, ms, omit)
    \/ \E r \in Recipients, omit \in BOOLEAN, d \in Delays : ServiceSendText(r, omit, d)
    \/ ConfigFlowStepUser
    \/ \E resp \in Responses : Respond(resp)
    \/ \E err \in TransportErrors : TransportFailure(err)
    \/ Finish

InitClient == ClientInit /\ StoreIdle /\ HostIdle

SpecClient == InitClient /\ [][ClientNext]_vars

-----------------------------------------------------------------------------
(* State cache: storage.py *)

Entries == {"e1", "e2"}
Tasks == {"t1", "t2"}
MaxClock == 2
MaxSetups == 2
GroupLists == {<<>>, <<"g1">>}

\* dt_util.now().isoformat()
Ts(t) == <<"ts", t>>

\* An optional dict argument (dict | None)
NoneDict == [some |-> FALSE, v |-> EmptyDict]
SomeDict(d) == [some |-> TRUE, v |-> d]

\* EvolutionApiStorage._get_default_data
DefaultData ==
    [groups |-> <<>>, groups_count |-> 0, groups_last_updated |-> None,
     connection_state |-> "unknown", connection_last_updated |-> None,
     instance_info |-> EmptyDict]

\* EvolutionApiStorage.__init__
NewStorage == [loaded |-> FALSE, data |-> EmptyDict]

\* No file on disk: Store.async_load returns None.
NoFile == [exists |-> FALSE, doc |-> EmptyDict]

\* A file whose data is the empty dict: Store.async_load returns {}.
EmptyFile == [exists |-> TRUE, doc |-> EmptyDict]

\* async_load: the storage is read unless the object has loaded before.
LoadNeedsRead_Always(st) == TRUE

LoadNeedsRead(st) == ~st.loaded

\* async_load: if stored: ... else: defaults
LoadedData_IfNotNone(stored) ==
    IF stored.exists THEN stored.doc ELSE DefaultData

LoadedData(stored) ==
    IF stored.exists /\ stored.doc # EmptyDict THEN stored.doc ELSE DefaultData

\* async_save_groups, up to the await of async_save
SaveGroupsData_StaleCount(data, groups, t) ==
    DictSet(DictSet(data, "groups", groups), "groups_last_updated", Ts(t))

SaveGroupsData(data, groups, t) ==
    DictSet(DictSet(DictSet(data, "groups", groups),
                    "groups_count", Len(groups)),
            "groups_last_updated", Ts(t))

\* async_save_connection_state, up to the await of async_save
SaveConnectionStateData_AlwaysInfo(data, state, instance_info, t) ==
    DictSet(DictSet(DictSet(data, "connection_state", state),
                    "connection_last_updated", Ts(t)),
            "instance_info", instance_info.v)

SaveConnectionStateData(data, state, instance_info, t) ==
    LET d1 == DictSet(DictSet(data, "connection_state", state),
                      "connection_last_updated", Ts(t))
    IN IF instance_info.some /\ instance_info.v # EmptyDict
       THEN DictSet(d1, "instance_info", instance_info.v)
       ELSE d1

\* EvolutionApiStorage.get_groups and the other getters
get_groups(st) == DictGet(st.data, "groups", <<>>)
get_groups_count(st) == DictGet(st.data, "groups_count", 0)
get_groups_last_updated(st) == DictGet(st.data, "groups_last_updated", None)
get_connection_state(st) == DictGet(st.data, "connection_state", "unknown")
get_instance_info(st) == DictGet(st.data, "instance_info", EmptyDict)

\* async_reset, up to the await of async_save
ResetData(data) == DefaultData

\* The exceptions the await of Store.async_save can raise.
StorageErrors == {"OSError"}

\* async_save has no except clause: what Store.async_save raises goes to
\* the caller of async_save, and from there to the caller of the replace.
SaveFailed_Swallowed(task, exc) == [task EXCEPT !.pc = "flushed"]

SaveFailed(task, exc) == [task EXCEPT !.pc = "done", !.error = exc]

\* Store.async_save(self._data) writes the document the storage object
\* holds when the write is carried out: it was handed the dict itself.
\* The whole document goes into the file in one piece.
WrittenDocument_Partial(st) ==
    [exists |-> TRUE, doc |-> [k \in DOMAIN st.data \ {"groups_count"} |-> st.data[k]]]

WrittenDocument(st) == [exists |-> TRUE, doc |-> st.data]

-----------------------------------------------------------------------------
(* Runtime registry, refresh coroutines and event bus: __init__.py, button.py *)

\* hass.data[DOMAIN] is a dict in insertion order: a sequence of items.
InRegistry(e) == \E i \in 1..Len(hass_data) : hass_data[i].entry_id = e
Index(e) == CHOOSE i \in 1..Len(hass_data) : hass_data[i].entry_id = e

\* async_setup_entry: hass.data[DOMAIN][entry.entry_id] = {...}
RegistryItem(e) ==
    [entry_id |-> e, data |-> [client |-> e, config |-> e, storage |-> e]]

\* The dict assignment: a new key goes to the end, an old key keeps its place.
SetRegistryItem(hd, e) ==
    IF \E i \in 1..Len(hd) : hd[i].entry_id = e
    THEN [i \in 1..Len(hd) |-> IF hd[i].entry_id = e THEN RegistryItem(e) ELSE hd[i]]
    ELSE Append(hd, RegistryItem(e))

\* hass.data[DOMAIN].pop(entry.entry_id)
PopRegistryItem(hd, e) == SelectSeq(hd, LAMBDA item : item.entry_id # e)

\* entry_data["groups"] = groups; entry_data["groups_count"] = len(groups)
SetRuntimeGroups(hd, e, groups) ==
    [hd EXCEPT ![Index(e)].data =
        DictSet(DictSet(@, "groups", groups), "groups_count", Len(groups))]

\* _get_client: the client of the first item that has one
HasClient == \E i \in 1..Len(hass_data) : "client" \in DOMAIN hass_data[i].data
FirstClient ==
    hass_data[CHOOSE i \in 1..Len(hass_data) :
                 /\ "client" \in DOMAIN hass_data[i].data
                 /\ \A j \in 1..(i - 1) : "client" \notin DOMAIN hass_data[j].data].data["client"]

\* hass.bus.async_fire(f"{DOMAIN}_groups_updated", {"entry_id": ..., "count": len(groups)})
FireGroupsUpdated_Twice(b, entry_id, groups, t) ==
    LET ev == [event_type |-> "evolution_api_groups_updated", entry_id |-> entry_id,
               count |-> Len(groups), task |-> t]
    IN Append(Append(b, ev), ev)

FireGroupsUpdated(b, entry_id, groups, t) ==
    Append(b, [event_type |-> "evolution_api_groups_updated", entry_id |-> entry_id,
               count |-> Len(groups), task |-> t])

\* What fetch_all_groups gives a refresh: a list, or one of the exceptions
\* the gateway client lets out (see SpecClient).
FetchErrors == {EvolutionApiAuthError, EvolutionApiConnectionError, EvolutionApiError,
                "JSONDecodeError"}

\* What a refresh whose fetch raised puts on the bus: the except clause logs
\* the error (the service raises it again), and async_fire is not reached.
FetchFailedBus_Notify(b, task) == FireGroupsUpdated(b, task.entry, <<>>, "")

FetchFailedBus(b, task) == b

\* A coroutine: the operation it runs and where it is (op, pc), its local
\* variables, what it has written (saved), what the storage layer raised
\* inside it (raised), and what its caller gets (error, ret); args are the
\* arguments of a call of async_save_connection_state; detached is the
\* document of the storage object the coroutine is flushing once a new setup
\* of the entry has put another storage object in its place.
IdleTask == [op |-> "none", pc |-> "idle", entry |-> "", client |-> "",
             groups |-> <<>>, idx |-> 0, size |-> 0, saved |-> <<>>,
             raised |-> "", error |-> "", ret |-> EmptyDict,
             args |-> [state |-> "", instance_info |-> NoneDict],
             detached |-> NoneDict]

\* A coroutine the end of the process took away, and one it took away
\* between the modification of the document and the return of the flush.
GoneTask == [IdleTask EXCEPT !.pc = "gone"]
GoneInReplace == [GoneTask EXCEPT !.op = "replace"]

\* What get_instance_info returns: the fields of the connection state, or
\* the error record it builds from an EvolutionApiError.
InstanceInfos == {
    [state |-> "open", owner |-> "", profile_name |-> "", profile_picture_url |-> "",
     phone_number |-> ""],
    [state |-> "error", error |-> "Invalid API key"] }

\* hass.data[DOMAIN][entry_id]["instance_info"] = info
SetRuntimeInstanceInfo(hd, e, info) ==
    [hd EXCEPT ![Index(e)].data = DictSet(@, "instance_info", info)]

\* hass.bus.async_fire(f"{DOMAIN}_connection_updated", {"entry_id": ..., "state": info.get("state")})
FireConnectionUpdated(b, entry_id, info, t) ==
    Append(b, [event_type |-> "evolution_api_connection_updated", entry_id |-> entry_id,
               state |-> DictGet(info, "state", "None"), task |-> t])

\* The arguments async_save_connection_state is called with.
ConnectionArgs == {
    [state |-> "open", instance_info |-> SomeDict([state |-> "open"])],
    [state |-> "close", instance_info |-> NoneDict],
    [state |-> "close", instance_info |-> SomeDict(EmptyDict)] }

StoreInit ==
    /\ \E f \in {NoFile, EmptyFile} : durable = [e \in Entries |-> f]
    /\ storage = [e \in Entries |-> NewStorage]
    /\ hass_data = <<>>
    /\ setup_pc = [e \in Entries |-> "not_loaded"]
    /\ tasks = [t \in Tasks |-> IdleTask]
    /\ bus = <<>>
    /\ now = 1
    /\ reads = [e \in Entries |-> 0]

\* The gateway client part is not running under Spec.
ClientIdle == ClientInit

-----------------------------------------------------------------------------
(* Spec: actions *)

\* A coroutine that is in the flush of the storage object st of entry e
\* keeps that object when the entry gets a new one.
DetachedFrom(task, e, st) ==
    IF task.pc = "flush" /\ task.entry = e /\ ~task.detached.some
    THEN [task EXCEPT !.detached = SomeDict(st.data)]
    ELSE task

\* The storage object a coroutine in its flush holds.
StorageOf(t) ==
    IF tasks[t].detached.some
    THEN [loaded |-> TRUE, data |-> tasks[t].detached.v]
    ELSE storage[tasks[t].entry]

\* The buttons of an entry exist from the forwarding of the platforms, which
\* follows the load of the storage, until the platforms are unloaded.
ButtonAdded_BeforeLoad(e) == setup_pc[e] \in {"loading", "forwarding", "loaded", "unloading"}

ButtonAdded(e) == setup_pc[e] \in {"forwarding", "loaded", "unloading"}

\* async_setup_entry, up to the await inside storage.async_load(); an entry
\* is set up at most MaxSetups times in a process.
SetupEntry(e) ==
    /\ setup_pc[e] = "not_loaded"
    /\ reads[e] < MaxSetups
    /\ storage' = [storage EXCEPT ![e] = NewStorage]
    /\ IF LoadNeedsRead(NewStorage)
       THEN /\ setup_pc' = [setup_pc EXCEPT ![e] = "loading"]
            /\ reads' = [reads EXCEPT ![e] = @ + 1]
            /\ UNCHANGED hass_data
       ELSE /\ setup_pc' = [setup_pc EXCEPT ![e] = "loaded"]
            /\ hass_data' = SetRegistryItem(hass_data, e)
            /\ UNCHANGED reads
    /\ tasks' = [t \in Tasks |-> DetachedFrom(tasks[t], e, storage[e])]
    /\ UNCHANGED <<durable, bus, now>>
    /\ UNCHANGED <<clientVars, hostVars>>

\* Store.async_load returns: the rest of async_load, then the entry is put
\* into hass.data[DOMAIN], the services are registered and the platforms
\* (buttons, sensors) are set up.
SetupLoaded(e) ==
    /\ setup_pc[e] = "loading"
    /\ storage' = [storage EXCEPT ![e] = [loaded |-> TRUE, data |-> LoadedData(durable[e])]]
    /\ hass_data' = SetRegistryItem(hass_data, e)
    /\ setup_pc' = [setup_pc EXCEPT ![e] = "loaded"]
    /\ UNCHANGED <<durable, tasks, bus, now, reads>>
    /\ UNCHANGED <<clientVars, hostVars>>

\* A later storage.async_load() on the storage object of a set-up entry.
AsyncLoad(t, e) ==
    /\ tasks[t].pc = "idle"
    /\ setup_pc[e] = "loaded"
    /\ IF LoadNeedsRead(storage[e])
       THEN /\ reads' = [reads EXCEPT ![e] = @ + 1]
            /\ storage' = [storage EXCEPT ![e] = [loaded |-> TRUE, data |-> LoadedData(durable[e])]]
       ELSE UNCHANGED <<reads, storage>>
    /\ tasks' = [tasks EXCEPT ![t] = [IdleTask EXCEPT !.op = "load", !.pc = "done", !.entry = e,
                                                      !.ret = storage'[e].data]]
    /\ UNCHANGED <<durable, hass_data, setup_pc, bus, now>>
    /\ UNCHANGED <<clientVars, hostVars>>

\* RefreshGroupsButton.async_press, up to the await of fetch_all_groups
PressRefreshGroups(t, e) ==
    /\ tasks[t].pc = "idle"
    /\ ButtonAdded(e)
    /\ tasks' = [tasks EXCEPT ![t] = [IdleTask EXCEPT !.op = "press", !.pc = "fetch",
                                                      !.entry = e, !.client = e]]
    /\ UNCHANGED <<durable, storage, hass_data, setup_pc, bus, now, reads>>
    /\ UNCHANGED <<clientVars, hostVars>>

\* The refresh_groups service, up to the await of fetch_all_groups; the
\* service exists once an entry has been set up.
CallRefreshGroups(t) ==
    /\ tasks[t].pc = "idle"
    /\ Len(hass_data) > 0
    /\ IF HasClient
       THEN tasks' = [tasks EXCEPT ![t] = [IdleTask EXCEPT !.op = "service", !.pc = "fetch",
                                                           !.client = FirstClient]]
       ELSE tasks' = [tasks EXCEPT ![t] = [IdleTask EXCEPT !.op = "service", !.pc = "done",
                                                           !.error = "ValueError"]]
    /\ UNCHANGED <<durable, storage, hass_data, setup_pc, bus, now, reads>>
    /\ UNCHANGED <<clientVars, hostVars>>

\* The writes a refresh makes for entry e before it awaits the flush: the
\* runtime groups, then async_save_groups up to the await of async_save.
RefreshWrites(t, e, groups) ==
    /\ hass_data' = SetRuntimeGroups(hass_data, e, groups)
    /\ IF "storage" \in DOMAIN hass_data[Index(e)].data
       THEN storage' = [storage EXCEPT ![e].data = SaveGroupsData(@, groups, now)]
       ELSE UNCHANGED storage

\* fetch_all_groups returns a list: the button writes its own entry, the
\* service starts its loop over hass.data[DOMAIN].items(). The button's
\* hass.data[DOMAIN][entry_id] raises KeyError when the entry has been
\* unloaded meanwhile; the loop of the service ends at once over an empty dict.
FetchReturns(t, groups) ==
    /\ tasks[t].pc = "fetch"
    /\ IF tasks[t].op = "press" /\ ~InRegistry(tasks[t].entry)
       THEN /\ tasks' = [tasks EXCEPT ![t].pc = "done", ![t].error = "KeyError"]
            /\ UNCHANGED <<storage, hass_data>>
       ELSE IF tasks[t].op = "service" /\ hass_data = <<>>
       THEN /\ tasks' = [tasks EXCEPT ![t].pc = "done", ![t].groups = groups]
            /\ UNCHANGED <<storage, hass_data>>
       ELSE LET e == IF tasks[t].op = "press" THEN tasks[t].entry ELSE hass_data[1].entry_id IN
            /\ RefreshWrites(t, e, groups)
            /\ tasks' = [tasks EXCEPT ![t].pc = "flush", ![t].entry = e, ![t].groups = groups,
                                      ![t].idx = 1, ![t].size = Len(hass_data)]
    /\ UNCHANGED <<durable, setup_pc, bus, now, reads>>
    /\ UNCHANGED <<clientVars, hostVars>>

\* fetch_all_groups raises: the button logs an EvolutionApiError and
\* returns, the service re-raises it; any other exception leaves both.
FetchRaises(t, exc) ==
    /\ tasks[t].pc = "fetch"
    /\ tasks' = [tasks EXCEPT ![t].pc = "done",
                              ![t].error = IF tasks[t].op = "press" /\ IsEvolutionApiError(exc)
                                           THEN "" ELSE exc]
    /\ bus' = FetchFailedBus(bus, tasks[t])
    /\ UNCHANGED <<durable, storage, hass_data, setup_pc, now, reads>>
    /\ UNCHANGED <<clientVars, hostVars>>

\* EvolutionApiStorage.async_save_connection_state, up to the await of async_save
SaveConnectionState(t, e, state, instance_info) ==
    /\ tasks[t].pc = "idle"
    /\ setup_pc[e] = "loaded"
    /\ storage' = [storage EXCEPT ![e].data = SaveConnectionStateData(@, state, instance_info, now)]
    /\ tasks' = [tasks EXCEPT ![t] = [IdleTask EXCEPT !.op = "save_connection_state",
                                                      !.pc = "flush", !.entry = e,
                                                      !.args = [state |-> state,
                                                                instance_info |-> instance_info]]]
    /\ UNCHANGED <<durable, hass_data, setup_pc, bus, now, reads>>
    /\ UNCHANGED <<clientVars, hostVars>>

\* Store.async_save carries out the write for a coroutine awaiting it.
StoreWrite(t) ==
    /\ tasks[t].pc = "flush"
    /\ durable' = [durable EXCEPT ![tasks[t].entry] = WrittenDocument(StorageOf(t))]
    /\ tasks' = [tasks EXCEPT ![t].pc = "flushed"]
    /\ UNCHANGED <<storage, hass_data, setup_pc, bus, now, reads>>
    /\ UNCHANGED <<clientVars, hostVars>>

\* Store.async_save raises inside a coroutine awaiting it: nothing is
\* written, and the exception leaves async_save and the operation that
\* awaited it; the button and the service catch EvolutionApiError only.
StoreWriteFails(t, exc) ==
    /\ tasks[t].pc = "flush"
    /\ tasks' = [tasks EXCEPT ![t] = SaveFailed([tasks[t] EXCEPT !.raised = exc], exc)]
    /\ UNCHANGED <<durable, storage, hass_data, setup_pc, bus, now, reads>>
    /\ UNCHANGED <<clientVars, hostVars>>

\* EvolutionApiStorage.async_reset, up to the await of async_save
Reset(t, e) ==
    /\ tasks[t].pc = "idle"
    /\ setup_pc[e] = "loaded"
    /\ storage' = [storage EXCEPT ![e].data = ResetData(@)]
    /\ tasks' = [tasks EXCEPT ![t] = [IdleTask EXCEPT !.op = "reset", !.pc = "flush", !.entry = e]]
    /\ UNCHANGED <<durable, hass_data, setup_pc, bus, now, reads>>
    /\ UNCHANGED <<clientVars, hostVars>>

\* RefreshConnectionButton.async_press, up to the await of get_instance_info
PressRefreshConnection(t, e) ==
    /\ tasks[t].pc = "idle"
    /\ setup_pc[e] = "loaded"
    /\ tasks' = [tasks EXCEPT ![t] = [IdleTask EXCEPT !.op = "press_connection", !.pc = "info",
                                                      !.entry = e, !.client = e]]
    /\ UNCHANGED <<durable, storage, hass_data, setup_pc, bus, now, reads>>
    /\ UNCHANGED <<clientVars, hostVars>>

\* get_instance_info returns: the button puts the info into hass.data and
\* fires the event; it makes no call on the storage object.
InfoReturns(t, info) ==
    /\ tasks[t].pc = "info"
    /\ hass_data' = SetRuntimeInstanceInfo(hass_data, tasks[t].entry, info)
    /\ bus' = FireConnectionUpdated(bus, tasks[t].entry, info, t)
    /\ tasks' = [tasks EXCEPT ![t].pc = "done", ![t].ret = info]
    /\ UNCHANGED <<durable, storage, setup_pc, now, reads>>
    /\ UNCHANGED <<clientVars, hostVars>>

\* get_instance_info lets out what is not an EvolutionApiError, and so
\* does the button.
InfoRaises(t, exc) ==
    /\ tasks[t].pc = "info"
    /\ tasks' = [tasks EXCEPT ![t].pc = "done", ![t].error = exc]
    /\ UNCHANGED <<durable, storage, hass_data, setup_pc, bus, now, reads>>
    /\ UNCHANGED <<clientVars, hostVars>>

\* async_save_connection_state or async_reset returns to its caller.
SaveConnectionStateReturns(t) ==
    /\ tasks[t].pc = "flushed"
    /\ tasks[t].op \in {"save_connection_state", "reset"}
    /\ tasks' = [tasks EXCEPT ![t].pc = "done", ![t].saved = Append(@, tasks[t].entry)]
    /\ UNCHANGED <<durable, storage, hass_data, setup_pc, bus, now, reads>>
    /\ UNCHANGED <<clientVars, hostVars>>

\* async_save_groups returns to the button: the event is fired.
PressResumes(t) ==
    /\ tasks[t].pc = "flushed"
    /\ tasks[t].op = "press"
    /\ bus' = FireGroupsUpdated(bus, tasks[t].entry, tasks[t].groups, t)
    /\ tasks' = [tasks EXCEPT ![t].pc = "done", ![t].saved = Append(@, tasks[t].entry)]
    /\ UNCHANGED <<durable, storage, hass_data, setup_pc, now, reads>>
    /\ UNCHANGED <<clientVars, hostVars>>

\* async_save_groups returns to the service: the event is fired and the loop
\* takes the next item; the dict iterator raises RuntimeError if the dict
\* has changed size since the loop started.
ServiceResumes(t) ==
    /\ tasks[t].pc = "flushed"
    /\ tasks[t].op = "service"
    /\ bus' = FireGroupsUpdated(bus, tasks[t].entry, tasks[t].groups, t)
    /\ IF Len(hass_data) # tasks[t].size
       THEN /\ tasks' = [tasks EXCEPT ![t].pc = "done", ![t].saved = Append(@, tasks[t].entry),
                                      ![t].error = "RuntimeError"]
            /\ UNCHANGED <<storage, hass_data>>
       ELSE IF tasks[t].idx < Len(hass_data)
       THEN LET e == hass_data[tasks[t].idx + 1].entry_id IN
            /\ RefreshWrites(t, e, tasks[t].groups)
            /\ tasks' = [tasks EXCEPT ![t].pc = "flush", ![t].saved = Append(@, tasks[t].entry),
                                      ![t].entry = e, ![t].idx = @ + 1]
       ELSE /\ tasks' = [tasks EXCEPT ![t].pc = "done", ![t].saved = Append(@, tasks[t].entry)]
            /\ UNCHANGED <<storage, hass_data>>
    /\ UNCHANGED <<durable, setup_pc, now, reads>>
    /\ UNCHANGED <<clientVars, hostVars>>

\* Time passes.
Tick ==
    /\ now < MaxClock
    /\ now' = now + 1
    /\ UNCHANGED <<durable, storage, hass_data, setup_pc, tasks, bus, reads>>
    /\ UNCHANGED <<clientVars, hostVars>>

\* The process ends and a new one starts: only the files of Store remain.
\* The coroutines that were running are gone; Tasks are the invocations that
\* happen over all process lifetimes, so those not yet made remain to be made.
Restart ==
    /\ \E e \in Entries : setup_pc[e] # "not_loaded"
    /\ storage' = [e \in Entries |-> NewStorage]
    /\ hass_data' = <<>>
    /\ setup_pc' = [e \in Entries |-> "not_loaded"]
    /\ tasks' = [t \in Tasks |-> IF tasks[t].pc = "idle" THEN IdleTask
                                 ELSE IF tasks[t].pc \in {"flush", "flushed"} THEN GoneInReplace
                                 ELSE IF tasks[t].pc = "gone" THEN tasks[t]
                                 ELSE GoneTask]
    /\ bus' = <<>>
    /\ reads' = [e \in Entries |-> 0]
    /\ UNCHANGED <<durable, now>>
    /\ UNCHANGED <<clientVars, hostVars>>

Next ==
    \/ \E e \in Entries : SetupEntry(e)
    \/ \E e \in Entries : SetupLoaded(e)
    \/ \E t \in Tasks, e \in Entries : AsyncLoad(t, e)
    \/ \E t \in Tasks, e \in Entries : PressRefreshGroups(t, e)
    \/ \E t \in Tasks : CallRefreshGroups(t)
    \/ \E t \in Tasks, g \in GroupLists : FetchReturns(t, g)
    \/ \E t \in Tasks, exc \in FetchErrors : FetchRaises(t, exc)
    \/ \E t \in Tasks, e \in Entries, a \in ConnectionArgs :
          SaveConnectionState(t, e, a.state, a.instance_info)
    \/ \E t \in Tasks, e \in Entries : Reset(t, e)
    \/ \E t \in Tasks, e \in Entries : PressRefreshConnection(t, e)
    \/ \E t \in Tasks, info \in InstanceInfos : InfoReturns(t, info)
    \/ \E t \in Tasks : InfoRaises(t, "JSONDecodeError")
    \/ \E t \in Tasks : StoreWrite(t)
    \/ \E t \in Tasks, exc \in StorageErrors : StoreWriteFails(t, exc)
    \/ \E t \in Tasks : SaveConnectionStateReturns(t)
    \/ \E t \in Tasks : PressResumes(t)
    \/ \E t \in Tasks : ServiceResumes(t)
    \/ Tick
    \/ Restart

Init == StoreInit /\ ClientIdle /\ HostIdle

Spec == Init /\ [][Next]_vars

-----------------------------------------------------------------------------
(* Setup, unload and reload of config entries, services, groups sensor:
   __init__.py, sensor.py. SpecLifecycle runs the button refresh of Spec
   while entries are set up, unloaded and set up again (a reload is
   async_unload_entry followed by async_setup_entry). The process does not
   restart, and the refresh_groups service is left to Spec. *)

\* const.py and __init__.py: the services of the integration
SERVICE_SEND_TEXT == "send_text"
ServiceNames == {SERVICE_SEND_TEXT, "send_media", "send_audio", "send_sticker", "send_location",
                 "send_contact", "send_reaction", "send_poll", "check_number", "refresh_groups"}

\* hass.services.has_service(DOMAIN, service)
has_service(svcs, service) == service \in DOMAIN svcs

\* The services are a dict from the name to the number of times
\* hass.services.async_register has been called for it since it was last
\* removed.
RegisterServices_Unchecked(svcs) ==
    [s \in ServiceNames |-> DictGet(svcs, s, 0) + 1]

RegisterServices(svcs) ==
    IF has_service(svcs, SERVICE_SEND_TEXT)
    THEN svcs
    ELSE [s \in ServiceNames |-> DictGet(svcs, s, 0) + 1]

\* _async_unregister_services: hass.services.async_remove for each name
UnregisterServices(svcs) ==
    IF DOMAIN svcs \subseteq ServiceNames
    THEN EmptyDict
    ELSE [s \in (DOMAIN svcs) \ ServiceNames |-> svcs[s]]

\* EvolutionApiGroupsSensor: _groups, _last_updated; since is the length of
\* the bus when the listener was subscribed, written the parity of the
\* number of calls of async_write_ha_state.
NoSensor == [added |-> FALSE, groups |-> <<>>, last_updated |-> None, since |-> 0, written |-> 0]

\* hass.data[DOMAIN].get(entry_id, {})
EntryData(e) == IF InRegistry(e) THEN hass_data[Index(e)].data ELSE EmptyDict

\* EvolutionApiGroupsSensor.__init__ and async_added_to_hass
AddedToHass(e) ==
    LET entry_data == EntryData(e)
        has_storage == "storage" \in DOMAIN entry_data
        stored_groups == IF has_storage THEN get_groups(storage[entry_data.storage]) ELSE <<>>
        from_storage == has_storage /\ stored_groups # <<>>
    IN [added |-> TRUE,
        groups |-> IF "groups" \in DOMAIN entry_data THEN entry_data.groups
                   ELSE IF from_storage THEN stored_groups
                   ELSE <<>>,
        last_updated |-> IF from_storage THEN get_groups_last_updated(storage[entry_data.storage])
                         ELSE None,
        since |-> Len(bus),
        written |-> 0]

\* EvolutionApiGroupsSensor._handle_groups_updated for an event of its entry
HandledGroupsUpdated(sn, e) ==
    LET entry_data == hass_data[Index(e)].data IN
    [sn EXCEPT !.groups = DictGet(entry_data, "groups", <<>>),
               !.last_updated = IF "storage" \in DOMAIN entry_data
                                THEN get_groups_last_updated(storage[entry_data.storage])
                                ELSE @,
               !.written = 1 - @]

LifecycleInit ==
    /\ services = EmptyDict
    /\ sensor = [e \in Entries |-> NoSensor]

\* Store.async_load returns in async_setup_entry: the rest of async_load,
\* then the entry is put into hass.data[DOMAIN] and the services are
\* registered; the setup awaits async_forward_entry_setups, in which the
\* button platform adds its buttons without awaiting anything.
SetupRegistered(e) ==
    /\ setup_pc[e] = "loading"
    /\ storage' = [storage EXCEPT ![e] = [loaded |-> TRUE, data |-> LoadedData(durable[e])]]
    /\ hass_data' = SetRegistryItem(hass_data, e)
    /\ services' = RegisterServices(services)
    /\ setup_pc' = [setup_pc EXCEPT ![e] = "forwarding"]
    /\ UNCHANGED <<durable, tasks, bus, now, reads, sensor>>
    /\ UNCHANGED <<clientVars, player>>

\* async_forward_entry_setups returns: the sensor platform has made its
\* first coordinator refresh and added the groups sensor.
PlatformsSetUp(e) ==
    /\ setup_pc[e] = "forwarding"
    /\ sensor' = [sensor EXCEPT ![e] = AddedToHass(e)]
    /\ setup_pc' = [setup_pc EXCEPT ![e] = "loaded"]
    /\ UNCHANGED <<durable, storage, hass_data, tasks, bus, now, reads, services>>
    /\ UNCHANGED <<clientVars, player>>

\* async_unload_entry, up to the await of async_unload_platforms
AsyncUnloadEntry(e) ==
    /\ setup_pc[e] = "loaded"
    /\ setup_pc' = [setup_pc EXCEPT ![e] = "unloading"]
    /\ UNCHANGED <<durable, storage, hass_data, tasks, bus, now, reads, services, sensor>>
    /\ UNCHANGED <<clientVars, player>>

\* async_unload_platforms returns unload_ok: if true the entities are
\* removed (the sensor's listener with them), the entry is popped and the
\* services are removed when no entry is left.
PlatformsUnloaded(e, unload_ok) ==
    /\ setup_pc[e] = "unloading"
    /\ IF unload_ok
       THEN /\ sensor' = [sensor EXCEPT ![e] = NoSensor]
            /\ hass_data' = PopRegistryItem(hass_data, e)
            /\ services' = IF hass_data' = <<>> THEN UnregisterServices(services) ELSE services
            /\ setup_pc' = [setup_pc EXCEPT ![e] = "not_loaded"]
       ELSE /\ setup_pc' = [setup_pc EXCEPT ![e] = "loaded"]
            /\ UNCHANGED <<sensor, hass_data, services>>
    /\ UNCHANGED <<durable, storage, tasks, bus, now, reads>>
    /\ UNCHANGED <<clientVars, player>>

\* The bus delivers event number i to the listener of the sensor of entry
\* e: at once, later, or more than once; an event of another entry changes
\* nothing.
HandleGroupsUpdated(e, i) ==
    /\ sensor[e].added
    /\ i > sensor[e].since
    /\ i <= Len(bus)
    /\ bus[i].event_type = "evolution_api_groups_updated"
    /\ bus[i].entry_id = e
    /\ sensor' = [sensor EXCEPT ![e] = HandledGroupsUpdated(@, e)]
    /\ UNCHANGED <<durable, storage, hass_data, setup_pc, tasks, bus, now, reads, services>>
    /\ UNCHANGED <<clientVars, player>>

\* One refresh coroutine runs under SpecLifecycle; its event can be
\* delivered more than once.
LifecycleTasks == {"t1"}

\* A refresh coroutine fires at most one event.
EventNumbers == 1..Cardinality(LifecycleTasks)

LifecycleNext ==
    \/ \E e \in Entries : SetupEntry(e)
    \/ \E e \in Entries : SetupRegistered(e)
    \/ \E e \in Entries : PlatformsSetUp(e)
    \/ \E e \in Entries : AsyncUnloadEntry(e)
    \/ \E e \in Entries, unload_ok \in BOOLEAN : PlatformsUnloaded(e, unload_ok)
    \/ \E t \in LifecycleTasks, e \in Entries : PressRefreshGroups(t, e)
    \/ \E t \in LifecycleTasks, g \in GroupLists : FetchReturns(t, g)
    \/ \E t \in LifecycleTasks, exc \in FetchErrors : FetchRaises(t, exc)
    \/ \E t \in LifecycleTasks : StoreWrite(t)
    \/ \E t \in LifecycleTasks, exc \in StorageErrors : StoreWriteFails(t, exc)
    \/ \E t \in LifecycleTasks : PressResumes(t)
    \/ \E e \in Entries, i \in EventNumbers : HandleGroupsUpdated(e, i)
    \/ Tick

InitLifecycle == StoreInit /\ LifecycleInit /\ ClientIdle /\ PlayerIdle

SpecLifecycle == InitLifecycle /\ [][LifecycleNext]_vars

\* The gateway client ends a fetch within its timeout, Store ends a write,
\* and the event loop resumes a coroutine whose await has ended.
SpecLifecycleFair ==
    /\ SpecLifecycle
    /\ \A t \in LifecycleTasks :
          /\ WF_vars((\E g \in GroupLists : FetchReturns(t, g))
                        \/ (\E exc \in FetchErrors : FetchRaises(t, exc)))
          /\ WF_vars(StoreWrite(t) \/ (\E exc \in StorageErrors : StoreWriteFails(t, exc)))
          /\ WF_vars(PressResumes(t))

-----------------------------------------------------------------------------
(* Media player: media_player.py *)

Invocations == {"i1", "i2"}

\* MediaPlayerState
IDLE == "idle"
PLAYING == "playing"

\* extra.get("target"): None when extra has no target
NoTarget == [some |-> FALSE, v |-> EmptyStr]
Targets == {NoTarget, [some |-> TRUE, v |-> EmptyStr], [some |-> TRUE, v |-> Phone]}

\* "if not target:"
TruthyTarget(target) == target.some /\ target.v # EmptyStr

\* str.startswith
StartsWith(str, prefix) ==
    /\ Len(str) >= Len(prefix)
    /\ SubSeq(str, 1, Len(prefix)) = prefix

\* The media references a caller passes as media_id: none, a web URL, a
\* media-source reference and a local path.
HttpPrefix == <<"h", "t", "t", "p">>
MediaSourcePrefix == <<"m", "e", "d", "i", "a", "-", "s", "o", "u", "r", "c", "e", ":", "/", "/">>
MediaIds == {EmptyStr, HttpPrefix \o <<":", "/", "/", "a">>, MediaSourcePrefix \o <<"x">>,
             <<"/", "m">>}

\* get_media_content returns at once for an empty reference (None) and for
\* a web URL (the URL); for a media-source reference and for a local path it
\* awaits a download or a file read.
NeedsResolving(path_or_url) ==
    path_or_url # EmptyStr /\ ~StartsWith(path_or_url, HttpPrefix)

MediaContentNow(path_or_url) == IF path_or_url = EmptyStr THEN None ELSE path_or_url

\* What the download or the file read gives: the Base64 text, or None when
\* the file is missing or the download failed.
Base64Content == <<"b", "6", "4">>
ResolvedContents == {None, Base64Content}

\* The parameters of EvolutionApiClient.send_audio and the keyword
\* arguments async_play_media calls it with.
SendAudioParams == {"number", "audio_url", "delay"}
PlayMediaSendAudioKwargs == {"number", "audio_url", "instance_id"}

\* The state async_play_media leaves after it has set PLAYING, by exit:
\* media unresolved, EvolutionApiError, any other Exception, success.
ExitState_KeepsPlayingOnError(exit) == IF exit = "unexpected_error" THEN PLAYING ELSE IDLE

ExitState(exit) == IDLE

\* An invocation of async_play_media: where it is, its arguments, what
\* get_media_content gave it, the requests it issued and how it ended.
NoInvocation == [pc |-> "idle", target |-> NoTarget, media_id |-> EmptyStr, content |-> None,
                 requests |-> <<>>, exit |-> ""]

PlayerInit ==
    player = [state |-> IDLE, inv |-> [i \in Invocations |-> NoInvocation]]

\* async_play_media from the return of get_media_content on: the media is
\* unresolved, or send_audio is called; Python binds the keyword arguments to
\* the parameters before the body of send_audio runs, and a TypeError is
\* caught by "except Exception". (With arguments that bind the request is
\* issued and the invocation awaits the answer.)
AfterGetMediaContent(i, inv, content) ==
    IF content = None
    THEN /\ player' = [player EXCEPT !.state = ExitState("unresolved"),
                                     !.inv[i] = [inv EXCEPT !.pc = "done", !.exit = "unresolved"]]
         /\ wire' = wire
    ELSE IF ~(PlayMediaSendAudioKwargs \subseteq SendAudioParams)
    THEN /\ player' = [player EXCEPT !.state = ExitState("unexpected_error"),
                                     !.inv[i] = [inv EXCEPT !.pc = "done", !.content = content,
                                                            !.exit = "unexpected_error"]]
         /\ wire' = wire
    ELSE LET req == BuildRequest("POST", API_ENDPOINT_SEND_AUDIO,
                                 SendAudioPayload(inv.target.v, content, NoneInt), TRUE) IN
         /\ player' = [player EXCEPT !.state = PLAYING,
                                     !.inv[i] = [inv EXCEPT !.pc = "sending", !.content = content,
                                                            !.requests = <<req>>]]
         /\ wire' = Append(wire, req)

\* async_play_media, up to its return or to the await inside
\* get_media_content. The media_type only decides whether a warning is logged.
PlayMedia(i, target, media_id) ==
    /\ player.inv[i].pc = "idle"
    /\ LET inv == [NoInvocation EXCEPT !.target = target, !.media_id = media_id] IN
       IF ~TruthyTarget(target)
       THEN /\ player' = [player EXCEPT !.inv[i] = [inv EXCEPT !.pc = "done", !.exit = "no_target"]]
            /\ wire' = wire
       ELSE IF NeedsResolving(media_id)
       THEN /\ player' = [player EXCEPT !.state = PLAYING,
                                        !.inv[i] = [inv EXCEPT !.pc = "resolving"]]
            /\ wire' = wire
       ELSE AfterGetMediaContent(i, inv, MediaContentNow(media_id))
    /\ UNCHANGED <<call, outcome, flow, services, sensor>>
    /\ UNCHANGED storeVars

\* get_media_content returns from its download or file read.
MediaResolved(i, content) ==
    /\ player.inv[i].pc = "resolving"
    /\ AfterGetMediaContent(i, player.inv[i], content)
    /\ UNCHANGED <<call, outcome, flow, services, sensor>>
    /\ UNCHANGED storeVars

PlayerNext ==
    \/ \E i \in Invocations, target \in Targets, media_id \in MediaIds : PlayMedia(i, target, media_id)
    \/ \E i \in Invocations, content \in ResolvedContents : MediaResolved(i, content)

InitPlayer == PlayerInit /\ ClientInit /\ StoreIdle /\ LifecycleIdle

SpecPlayer == InitPlayer /\ [][PlayerNext]_vars

-----------------------------------------------------------------------------
(* Gateway client and send-text service: properties (SpecClient) *)

Responded == call.pc = "done" /\ call.response.status # 0

\* C1: every response status maps to exactly one outcome: 401 gives the
\* authentication error, 404 gives a not-found error whose kind is neither
\* the authentication error nor the kind of the generic error, every other
\* status >= 400 gives the generic error carrying the status and the body
\* text verbatim, and no status below 400 gives any of these errors.
C1_StatusMapping ==
    Responded =>
        /\ call.response.status = 401 =>
              outcome.kind = "raise" /\ outcome.exc = EvolutionApiAuthError
        /\ call.response.status = 404 =>
              /\ outcome.kind = "raise"
              /\ IsEvolutionApiError(outcome.exc)
              /\ outcome.exc \notin {EvolutionApiAuthError, EvolutionApiError}
        /\ (call.response.status >= 400 /\ call.response.status \notin {401, 404}) =>
              /\ outcome.kind = "raise"
              /\ outcome.exc = EvolutionApiError
              /\ outcome.msg = <<"API error ", call.response.status, ": ", call.response.body>>
        /\ call.response.status < 400 =>
              ~(outcome.kind = "raise" /\ IsEvolutionApiError(outcome.exc))

\* C2: a transport failure (timeout or connection failure) is reported to
\* the caller as a connection error after exactly one attempt; no command
\* ever issues more than one HTTP request.
C2_SingleAttempt ==
    /\ Len(wire) <= 1
    /\ (call.pc = "done" /\ call.transport # "none") =>
          /\ Len(wire) = 1
          /\ outcome.kind = "raise"
          /\ outcome.exc = EvolutionApiConnectionError
          /\ outcome.cause = call.transport

C2_Witness ==
    /\ call.pc = "done"
    /\ call.transport = "TimeoutError"
    /\ call.op = "_request"
    /\ Len(wire) = 1
    /\ outcome.exc = EvolutionApiConnectionError

\* C3: for every response with a status below 400 the client returns the
\* decoded JSON body, and whenever the body cannot be decoded as JSON, for
\* whatever reason, it returns the fallback {status, message: raw text}
\* instead of raising.
C3_JsonOrFallback ==
    (Responded /\ call.op = "_request" /\ call.response.status < 400) =>
        /\ outcome.kind = "return"
        /\ (call.response.body # "" /\ ~JsonLoads(call.response.body).ok) =>
              outcome.value = [type |-> "fallback", status |-> call.response.status,
                               text |-> call.response.body, list |-> <<>>]
        /\ (call.response.ctype = "application/json" /\ JsonLoads(call.response.body).ok) =>
              outcome.value = JsonLoads(call.response.body).value

\* The recipient a send command means.
BothOrNeither(r) == (r.phone # None) <=> (r.group # None)
TheRecipient(r) == IF r.phone # None THEN r.phone ELSE r.group

\* C4: a send command carrying both a phone number and a group identifier,
\* or neither, is rejected with a validation error before any HTTP request
\* is issued; every other command is accepted and exactly one of the two
\* recipients is the number field of the request built for it.
C4_RecipientValidation ==
    (call.op = "service_send_text" /\ call.pc # "idle") =>
        IF BothOrNeither(call.recipient)
        THEN /\ wire = <<>>
             /\ outcome.kind = "raise"
             /\ outcome.exc \in {"ValidationError", "vol.Invalid"}
        ELSE /\ Len(wire) = 1
             /\ wire[1].json["number"] = TheRecipient(call.recipient)

\* The normalization the specification describes for group identifiers.
Normalize(x) == IF EndsWith(x, G_US) THEN x ELSE x \o G_US

\* C5: the group identifier of a send command is normalized to end with
\* @g.us before it goes to the wire; normalizing is idempotent and leaves an
\* identifier that already has the suffix unchanged.
C5_GroupNormalized ==
    (/\ call.op = "service_send_text"
     /\ call.validated
     /\ call.recipient.group # None
     /\ call.recipient.phone = None) =>
        /\ EndsWith(call.number, G_US)
        /\ call.number = Normalize(call.recipient.group)
        /\ Normalize(call.number) = call.number

-----------------------------------------------------------------------------
(* State cache, refreshes and notifications: properties (Spec) *)

\* A coroutine is inside a replace (async_save_groups or
\* async_save_connection_state): it has modified the document and has not
\* returned from the flush.
InReplace(t) == tasks[t].pc \in {"flush", "flushed"}

\* A replace returns to its caller in this step.
ReplaceReturns(t) ==
    /\ tasks[t].pc = "flushed"
    /\ tasks[t].op # "reset"
    /\ tasks'[t].pc \in {"flush", "done"}

\* C6: concurrent replace operations on one instance's state cache run their
\* read-modify-flush sequences under one mutual-exclusion boundary, so no two
\* are inside a replace of the same cache at once, and once all have
\* completed the persisted document is the complete document holding the
\* effect of every call.
C6_ReplaceMutualExclusion ==
    /\ \A t1, t2 \in Tasks :
          (t1 # t2 /\ InReplace(t1) /\ InReplace(t2)) => tasks[t1].entry # tasks[t2].entry
    /\ (\A t \in Tasks : ~InReplace(t) /\ tasks[t].pc # "fetch") =>
          \A e \in Entries :
              (\E t \in Tasks : \E i \in 1..Len(tasks[t].saved) : tasks[t].saved[i] = e) =>
                  durable[e] = WrittenDocument(storage[e])

\* The notifications a refresh has published for an entry, and the cache
\* writes of that entry it has completed.
EventsOf(t, e) == {i \in 1..Len(bus) : bus[i].task = t /\ bus[i].entry_id = e}
WritesOf(t, e) == {i \in 1..Len(tasks[t].saved) : tasks[t].saved[i] = e}

\* C7: every successful groups cache write of a refresh is followed by
\* exactly one groups_updated notification of that call, carrying the entry
\* whose cache was written and the groups_count that call put into the cache;
\* also when refreshes of the same instance interleave.
C7_OneNotificationPerWrite ==
    \A t \in Tasks : tasks[t].op \in {"press", "service"} =>
        \A e \in Entries :
            /\ Cardinality(EventsOf(t, e)) = Cardinality(WritesOf(t, e))
            /\ \A i \in EventsOf(t, e) :
                  /\ bus[i].event_type = "evolution_api_groups_updated"
                  /\ bus[i].count = SaveGroupsData(EmptyDict, tasks[t].groups, now)["groups_count"]

\* Two refreshes of one instance have interleaved: the one that wrote the
\* cache first published last, so the last notification carries its own
\* count and not the count the cache holds now.
C7_Witness ==
    \E t1, t2 \in Tasks, e \in Entries :
        /\ t1 # t2
        /\ tasks[t1].op = "press" /\ tasks[t1].pc = "done" /\ tasks[t1].saved = <<e>>
        /\ tasks[t2].op = "press" /\ tasks[t2].pc = "done" /\ tasks[t2].saved = <<e>>
        /\ Len(bus) = 2
        /\ bus[2].task = t1 /\ bus[2].entry_id = e
        /\ bus[2].count = Len(tasks[t1].groups)
        /\ bus[2].count # storage[e].data["groups_count"]

\* C8: a replace overwrites the dataset, stamps it with a non-null timestamp
\* and has flushed the full document by the time it returns: at the moment
\* of return the persisted document equals the in-memory document.
C8_ReplaceDurableOnReturn ==
    [][\A t \in Tasks : ReplaceReturns(t) =>
          LET e == tasks[t].entry
              stamp == IF tasks[t].op = "save_connection_state"
                       THEN "connection_last_updated" ELSE "groups_last_updated"
          IN /\ storage[e].data[stamp] # None
             /\ durable[e].exists
             /\ durable[e].doc = storage[e].data]_vars

\* C9: a successful replace of groups with X followed by load() on a fresh
\* storage object gives a document whose groups is X with a non-null
\* timestamp: what a fresh load would return at the moment the replace
\* returns is X.
C9_GroupsRoundTrip ==
    [][\A t \in Tasks : (ReplaceReturns(t) /\ tasks[t].op \in {"press", "service"}) =>
          LET loaded == LoadedData(durable[tasks[t].entry])
          IN /\ loaded["groups"] = tasks[t].groups
             /\ loaded["groups_last_updated"] # None]_vars

\* C10: a storage object reads the durable store at most once, and every
\* load() after the first completed one returns the in-memory document as
\* it is then, replaces included, without reading the store.
C10_LoadOnce ==
    /\ [](\A e \in Entries : reads[e] <= 1)
    /\ [][\A t \in Tasks : (tasks[t].pc = "idle" /\ tasks'[t].op = "load") =>
              /\ tasks'[t].ret = storage[tasks'[t].entry].data
              /\ reads' = reads
              /\ storage' = storage]_vars

\* A load() made after a replace has modified the document and before the
\* replace has flushed it: it returns the modified document, not the stored one.
C10_Witness ==
    \E t \in Tasks :
        /\ tasks[t].op = "load" /\ tasks[t].pc = "done"
        /\ reads[tasks[t].entry] = 1
        /\ tasks[t].ret = storage[tasks[t].entry].data
        /\ tasks[t].ret # LoadedData(durable[tasks[t].entry])

\* The default document as the specification gives it.
DocumentedDefaults ==
    [groups |-> <<>>, groups_count |-> 0, groups_last_updated |-> None,
     connection_state |-> "unknown", connection_last_updated |-> None,
     instance_info |-> EmptyDict]

\* The getters of a storage object return the documented defaults.
GettersReturnDefaults(st) ==
    /\ get_groups(st) = DocumentedDefaults.groups
    /\ get_groups_count(st) = DocumentedDefaults.groups_count
    /\ get_groups_last_updated(st) = DocumentedDefaults.groups_last_updated
    /\ get_connection_state(st) = DocumentedDefaults.connection_state
    /\ get_instance_info(st) = DocumentedDefaults.instance_info

\* async_load completes for entry e in this step, having read the store.
LoadCompletes(e) == setup_pc[e] = "loading" /\ setup_pc'[e] = "loaded"

\* C11: load() on absent or empty durable storage returns exactly the
\* default document (groups = [], groups_count = 0, groups_last_updated =
\* null, connection_state = "unknown", connection_last_updated = null,
\* instance_info = {}), and each getter returns the same default for a
\* dataset that was never set, before the load as well as after it.
C11_LoadDefaults ==
    /\ [](\A e \in Entries : storage[e] = NewStorage => GettersReturnDefaults(storage[e]))
    /\ [][\A e \in Entries :
             (LoadCompletes(e) /\ (~durable[e].exists \/ durable[e].doc = EmptyDict)) =>
                 /\ storage'[e].data = DocumentedDefaults
                 /\ GettersReturnDefaults(storage'[e])]_vars

\* A storage object that has loaded from a file holding the empty document.
C11_Witness ==
    \E e \in Entries :
        /\ durable[e] = EmptyFile
        /\ storage[e].loaded
        /\ reads[e] = 1
        /\ storage[e].data = DocumentedDefaults

\* The timestamp key of the dataset an operation replaces.
StampOf(op) ==
    IF op = "save_connection_state" THEN "connection_last_updated" ELSE "groups_last_updated"

\* The storage layer raises inside coroutine t in this step.
FlushFails(t) == tasks[t].raised = "" /\ tasks'[t].raised # ""

\* No other coroutine has run in this process lifetime.
Alone(t) == \A u \in Tasks \ {t} : tasks[u].pc \in {"idle", "gone"}

\* C12: when the storage layer fails during the flush of a replace, the
\* error goes to the caller of the replace (the state cache does not swallow
\* it), the failure changes neither the in-memory document nor the file, so
\* the in-memory value and timestamp stay as the replace set them (they are
\* the replace's own where no other operation has touched the cache) and
\* the durable document keeps its previous content.
C12_FlushFailurePropagates ==
    /\ [](\A t \in Tasks : tasks[t].raised # "" =>
             /\ tasks[t].pc = "done"
             /\ tasks[t].error = tasks[t].raised
             /\ \A i \in 1..Len(tasks[t].saved) : tasks[t].saved[i] # tasks[t].entry)
    /\ [][\A t \in Tasks : FlushFails(t) =>
             LET e == tasks[t].entry IN
             /\ durable' = durable
             /\ storage' = storage
             /\ (Alone(t) /\ tasks[t].op # "reset") =>
                    storage'[e].data[StampOf(tasks[t].op)] # None
             /\ (Alone(t) /\ tasks[t].op \in {"press", "service"}) =>
                    storage'[e].data["groups"] = tasks[t].groups]_vars

\* A refresh whose flush failed: the button press ended with the storage
\* error, the cache holds the fetched list, and no file was written.
C12_Witness ==
    \E t \in Tasks :
        /\ tasks[t].op = "press" /\ tasks[t].pc = "done"
        /\ tasks[t].raised = "OSError" /\ tasks[t].error = "OSError"
        /\ tasks[t].groups = <<"g1">>
        /\ storage[tasks[t].entry].data["groups"] = <<"g1">>
        /\ storage[tasks[t].entry].data["groups_last_updated"] # None
        /\ durable[tasks[t].entry] = NoFile

\* A document no replace has been applied to in part: all six keys, the
\* count of the list it holds, and a timestamp for every dataset that has
\* left its default.
CompleteDocument(doc) ==
    /\ DOMAIN doc = {"groups", "groups_count", "groups_last_updated",
                     "connection_state", "connection_last_updated", "instance_info"}
    /\ doc["groups_count"] = Len(doc["groups"])
    /\ doc["groups"] # <<>> => doc["groups_last_updated"] # None
    /\ doc["connection_state"] # "unknown" => doc["connection_last_updated"] # None
    /\ doc["instance_info"] # EmptyDict => doc["connection_last_updated"] # None

\* The process ends in this step.
Crashes ==
    /\ \E e \in Entries : setup_pc[e] # "not_loaded"
    /\ \A e \in Entries : setup_pc'[e] = "not_loaded"

TimeOf(stamp) == stamp[2]

\* C14: within one process lifetime each last-updated timestamp
\* (groups_last_updated, connection_last_updated) is monotonic
\* non-decreasing over load, replace and reset: once set it is never moved
\* to an earlier value or back to null.
C14_TimestampMonotonic ==
    [][\A e \in Entries : \A k \in {"groups_last_updated", "connection_last_updated"} :
          (/\ setup_pc[e] = "loaded"
           /\ setup_pc'[e] = "loaded"
           /\ storage[e].data[k] # None) =>
              /\ storage'[e].data[k] # None
              /\ TimeOf(storage'[e].data[k]) >= TimeOf(storage[e].data[k])]_vars

\* A coroutine has completed a cache write for an entry.
HasWritten(t, e) == \E i \in 1..Len(tasks[t].saved) : tasks[t].saved[i] = e

\* C15: for every refresh-style command (groups refresh and connection
\* refresh) the fetched result is written into the state cache and the
\* notification is published only after that cache write: every refresh
\* notification on the bus belongs to a result its refresh has written to
\* the state cache of that entry.
C15_NotifyAfterCacheWrite ==
    /\ \A i \in 1..Len(bus) : HasWritten(bus[i].task, bus[i].entry_id)
    /\ \A t \in Tasks :
          (/\ tasks[t].pc = "done"
           /\ tasks[t].error = ""
           /\ \/ tasks[t].op \in {"press", "service"} /\ tasks[t].idx >= 1
              \/ tasks[t].op = "press_connection" /\ tasks[t].ret # EmptyDict) =>
              HasWritten(t, tasks[t].entry)

\* C16: in every reachable state of a state cache that was loaded from
\* empty storage, groups_count equals the length of groups, in memory and
\* in the file; and when a groups refresh that returned a list L writes the
\* cache, groups becomes L and groups_count becomes len(L).
C16_GroupsCountIsLength ==
    /\ [](\A e \in Entries :
             /\ storage[e].loaded =>
                   storage[e].data["groups_count"] = Len(storage[e].data["groups"])
             /\ (durable[e].exists /\ durable[e].doc # EmptyDict) =>
                   durable[e].doc["groups_count"] = Len(durable[e].doc["groups"]))
    /\ [][\A t \in Tasks :
             (tasks[t].op \in {"press", "service"} /\ tasks'[t].pc = "flush"
              /\ tasks'[t] # tasks[t]) =>
                 /\ storage'[tasks'[t].entry].data["groups"] = tasks'[t].groups
                 /\ storage'[tasks'[t].entry].data["groups_count"] = Len(tasks'[t].groups)]_vars

\* A refresh that returned a one-element list has written the cache of an
\* entry that was loaded from empty storage.
C16_Witness ==
    \E t \in Tasks :
        /\ tasks[t].op = "press" /\ tasks[t].pc = "flush"
        /\ tasks[t].groups = <<"g1">>
        /\ durable[tasks[t].entry] \in {NoFile, EmptyFile}
        /\ storage[tasks[t].entry].data["groups"] = <<"g1">>
        /\ storage[tasks[t].entry].data["groups_count"] = 1

-----------------------------------------------------------------------------
(* Group listing and payload shaping: properties (SpecClient) *)

\* The body of a successful response has been decoded: as JSON, as nothing
\* (empty body), or as the raw-text fallback for a non-JSON content type.
Decoded(response) ==
    \/ response.ctype # "application/json"
    \/ response.body = ""
    \/ JsonLoads(response.body).ok

\* C17: the group-listing call issues one GET whose query string is
\* getParticipants=true when the flag is set and getParticipants=false
\* otherwise, and for a successful response whose decoded body is not a
\* sequence it returns the empty sequence instead of failing (and the
\* decoded sequence when it is one).
C17_GroupListing ==
    (call.op = "fetch_all_groups" /\ call.pc # "idle") =>
        /\ Len(wire) = 1
        /\ wire[1].method = "GET"
        /\ wire[1].endpoint = "/group/fetchAllGroups"
        /\ wire[1].query = IF call.args.get_participants
                           THEN "getParticipants=true" ELSE "getParticipants=false"
        /\ (Responded /\ call.response.status < 400 /\ Decoded(call.response)) =>
              /\ outcome.kind = "return"
              /\ outcome.value.type = "list"
              /\ outcome.value.list =
                    IF /\ call.response.ctype = "application/json"
                       /\ call.response.body = "[\"g1\"]"
                    THEN <<"g1">> ELSE <<>>

\* The listing was asked with the flag set and got a JSON object: it
\* returned the empty sequence.
C17_Witness ==
    /\ call.op = "fetch_all_groups" /\ call.pc = "done"
    /\ call.args.get_participants
    /\ call.response = [status |-> 200, ctype |-> "application/json", body |-> "{}"]
    /\ outcome = Return([type |-> "list", status |-> 0, text |-> "", list |-> <<>>])

SendOps == {"send_text", "send_media", "send_audio", "send_sticker", "send_location",
            "send_contact", "send_poll"}

\* The keys every body of a command has, as the wire table lists them.
RequiredKeys(op) ==
    CASE op = "send_text" -> {"number", "text", "linkPreview"}
      [] op = "send_media" -> {"number", "mediatype", "media", "mimetype"}
      [] op = "send_audio" -> {"number", "audio"}
      [] op = "send_sticker" -> {"number", "sticker"}
      [] op = "send_location" -> {"number", "latitude", "longitude"}
      [] op = "send_contact" -> {"number", "contact"}
      [] op = "send_poll" -> {"number", "name", "selectableCount", "values"}

\* The optional text fields of a command: the key and the argument it carries.
OptionalTextFields(op) ==
    CASE op = "send_media" -> {<<"caption", "caption">>, <<"fileName", "filename">>}
      [] op = "send_location" -> {<<"name", "name">>, <<"address", "address">>}
      [] op = "send_contact" -> {<<"email", "email">>, <<"organization", "organization">>}
      [] OTHER -> {}

\* The part of the body that holds the optional text fields.
FieldsHolder(op, body) == IF op = "send_contact" THEN body["contact"][1] ELSE body

\* The commands whose body takes a delay.
HasDelay(op) == op # "send_contact"

\* A value was supplied: it is present (not null) and not the empty value
\* of its type (0, "", [], false).
SuppliedInt(x) == x.some /\ x.v # 0
SuppliedStr(x) == x.some /\ x.v # ""
SuppliedList(x) == x # None /\ x # <<>>

\* C18: for every send-command payload each optional field (delay, caption,
\* fileName, mentionsEveryOne, mentioned, location name/address, contact
\* email/organization) is a key of the body if and only if a present,
\* non-default value was supplied, and a key that is there carries the
\* supplied value, never null; send_text with only number and text builds
\* exactly {number, text, linkPreview: true}.
C18_OptionalFields ==
    (call.op \in SendOps /\ call.pc # "idle") =>
        LET body == wire[1].json
            a == call.args
            holder == FieldsHolder(call.op, body)
        IN /\ Len(wire) = 1
           /\ RequiredKeys(call.op) \subseteq DOMAIN body
           /\ \A f \in OptionalTextFields(call.op) :
                 /\ f[1] \in DOMAIN holder <=> SuppliedStr(a[f[2]])
                 /\ f[1] \in DOMAIN holder => holder[f[1]] = a[f[2]].v
           /\ "delay" \in DOMAIN body <=> (HasDelay(call.op) /\ SuppliedInt(a.delay))
           /\ "delay" \in DOMAIN body => body["delay"] = a.delay.v
           /\ "mentionsEveryOne" \in DOMAIN body <=> (call.op = "send_text" /\ a.mention_all)
           /\ "mentionsEveryOne" \in DOMAIN body => body["mentionsEveryOne"] = TRUE
           /\ "mentioned" \in DOMAIN body <=> (call.op = "send_text" /\ SuppliedList(a.mentioned))
           /\ "mentioned" \in DOMAIN body => body["mentioned"] = a.mentioned
           /\ DOMAIN body \subseteq
                 RequiredKeys(call.op) \cup {"delay", "mentionsEveryOne", "mentioned"}
                    \cup {f[1] : f \in OptionalTextFields(call.op)}
           /\ (call.op = "send_text" /\ a = NoArgs) =>
                 body = [number |-> call.number, text |-> "hi", linkPreview |-> TRUE]

\* A send_media with an empty caption, a file name and no delay: the body
\* has fileName and neither caption nor delay.
C18_Witness ==
    /\ call.op = "send_media" /\ call.pc = "awaiting"
    /\ call.args.caption = SomeStr("")
    /\ call.args.filename = SomeStr("x")
    /\ call.args.delay = NoneInt
    /\ DOMAIN wire[1].json = {"number", "mediatype", "media", "mimetype", "fileName"}

\* C19: the mimetype of the send-media payload is a total function of the
\* media type: image gives image/png, video gives video/mp4, document gives
\* application/pdf, and every other media type gives the generic binary
\* type application/octet-stream.
C19_MimetypeDefaulting ==
    (call.op = "send_media" /\ call.pc # "idle") =>
        /\ "mimetype" \in DOMAIN wire[1].json
        /\ wire[1].json["mediatype"] = call.args.media_type
        /\ call.args.media_type = "image" => wire[1].json["mimetype"] = "image/png"
        /\ call.args.media_type = "video" => wire[1].json["mimetype"] = "video/mp4"
        /\ call.args.media_type = "document" => wire[1].json["mimetype"] = "application/pdf"
        /\ call.args.media_type \notin {"image", "video", "document"} =>
              wire[1].json["mimetype"] = "application/octet-stream"

\* A send_media of a media type that is not in the table.
C19_Witness ==
    /\ call.op = "send_media" /\ call.pc = "awaiting"
    /\ call.args.media_type = "audio"
    /\ wire[1].json["mimetype"] = "application/octet-stream"

\* The values list the specification gives for an option string: the
\* entries between the commas, trimmed, without the empty ones, in their
\* order, duplicates kept.
ExpectedPollValues(options_str) ==
    CASE options_str = <<"A", ",", " ", "B", " ", ",", ",", "C">> -> <<<<"A">>, <<"B">>, <<"C">>>>
      [] options_str = <<"B", ",", "A", ",", "B">> -> <<<<"B">>, <<"A">>, <<"B">>>>
      [] options_str = <<" ", ",">> -> <<>>
      [] options_str = <<"A", " ", "B">> -> <<<<"A", " ", "B">>>>

\* C20: the poll values list built from a comma-separated option string is
\* the sequence of the comma-separated entries, each trimmed of surrounding
\* whitespace, with empty entries removed, in their original order and with
\* duplicates kept; the body send_poll builds carries the list it is given
\* as values, and selectableCount is 1 when no selection count is supplied.
C20_PollValues ==
    /\ (call.op = "service_send_poll" /\ call.validated) =>
          call.args.options = ExpectedPollValues(call.args.poll_options)
    /\ (call.op = "send_poll" /\ call.pc # "idle") =>
          /\ wire[1].json["values"] = call.args.options
          /\ ~call.args.max_selections.some => wire[1].json["selectableCount"] = 1
          /\ call.args.max_selections.some =>
                wire[1].json["selectableCount"] = call.args.max_selections.v

\* The handler has built the list for "A, B ,,C".
C20_Witness ==
    /\ call.op = "service_send_poll" /\ call.validated
    /\ call.args.poll_options = <<"A", ",", " ", "B", " ", ",", ",", "C">>
    /\ call.args.options = <<<<"A">>, <<"B">>, <<"C">>>>
    /\ ~call.args.max_selections.some

-----------------------------------------------------------------------------
(* C30 *)

GroupsKeys == {"groups", "groups_count", "groups_last_updated"}
ConnectionKeys == {"connection_state", "connection_last_updated"}

\* The value a document holds under a key, or that it holds none.
Field(doc, k) == DictGet(doc, k, <<"absent">>)

\* The step in which a coroutine runs async_save_groups, or
\* async_save_connection_state, up to its flush.
RunsSaveGroups(t) ==
    /\ tasks'[t].op \in {"press", "service"}
    /\ tasks'[t].pc = "flush"
    /\ tasks[t].pc # "flush"

RunsSaveConnectionState(t) ==
    /\ tasks'[t].op = "save_connection_state"
    /\ tasks[t].pc = "idle"

\* C30: a cache write touches only its own dataset. async_save_groups
\* leaves connection_state, connection_last_updated and instance_info of
\* the document as they were; async_save_connection_state leaves groups,
\* groups_count and groups_last_updated as they were, and instance_info too
\* unless it was given an instance_info that is not empty.
C30_FrameEffect ==
    [][\A t \in Tasks :
          LET e == tasks'[t].entry
              old == storage[e].data
              new == storage'[e].data
          IN
          /\ RunsSaveGroups(t) =>
                \A k \in ConnectionKeys \cup {"instance_info"} : Field(new, k) = Field(old, k)
          /\ RunsSaveConnectionState(t) =>
                /\ \A k \in GroupsKeys : Field(new, k) = Field(old, k)
                /\ ( ~(tasks'[t].args.instance_info.some
                       /\ tasks'[t].args.instance_info.v # EmptyDict)
                     => Field(new, "instance_info") = Field(old, "instance_info") )
      ]_vars

\* A connection state was saved with an instance_info and then another
\* without one, and the document still holds the first instance_info.
C30_Witness ==
    \E e \in Entries :
        /\ setup_pc[e] = "loaded"
        /\ get_connection_state(storage[e]) = "close"
        /\ get_instance_info(storage[e]) # EmptyDict
        /\ \E t \in Tasks :
              /\ tasks[t].op = "save_connection_state" /\ tasks[t].entry = e
              /\ tasks[t].pc = "done" /\ tasks[t].error = ""
              /\ ~tasks[t].args.instance_info.some

-----------------------------------------------------------------------------
(* C26 *)

\* The step in which the fetch of a refresh raises.
FetchFails(t) == tasks[t].pc = "fetch" /\ tasks'[t].pc = "done"

\* C26: a groups refresh whose fetch fails leaves the document in memory,
\* the persisted document and the runtime groups of every instance as they
\* were and publishes no groups_updated notification: not in the step in
\* which the fetch raises, and not afterwards.
C26_FetchFailureChangesNothing ==
    /\ [][\A t \in Tasks : FetchFails(t) =>
              /\ storage' = storage
              /\ durable' = durable
              /\ hass_data' = hass_data
              /\ bus' = bus]_vars
    /\ [](\A t \in Tasks :
             (tasks[t].op \in {"press", "service"} /\ tasks[t].pc = "done" /\ tasks[t].idx = 0) =>
                /\ tasks[t].saved = <<>>
                /\ \A i \in 1..Len(bus) : bus[i].task # t)

\* The fetch of a service call failed with an authentication error while an
\* instance held a list that an earlier refresh had stored: the cache, the
\* disk and the runtime groups hold it.
C26_Witness ==
    \E t \in Tasks, e \in Entries :
        /\ tasks[t].op = "service" /\ tasks[t].pc = "done"
        /\ tasks[t].error = EvolutionApiAuthError
        /\ setup_pc[e] = "loaded"
        /\ get_groups(storage[e]) = <<"g1">>
        /\ durable[e].exists /\ DictGet(durable[e].doc, "groups", <<>>) = <<"g1">>
        /\ DictGet(hass_data[Index(e)].data, "groups", <<>>) = <<"g1">>

-----------------------------------------------------------------------------
(* C25 *)

\* C25: a groups refresh stores into the cache and the runtime groups of an
\* instance only a list fetched with the client of that instance: a
\* coroutine that has written the list for an entry and is in its flush
\* fetched the list with the client of that entry.
C25_OwnClientOnly ==
    \A t \in Tasks :
        (tasks[t].op \in {"press", "service"} /\ tasks[t].pc \in {"flush", "flushed"}) =>
            tasks[t].client = tasks[t].entry

-----------------------------------------------------------------------------
(* C27 *)

\* C27: a call of the refresh_groups service that got its list and met no
\* storage failure completes without error, having written the list for
\* every entry that was in the registry when its loop started and fired
\* exactly one notification for each of them, whatever was set up meanwhile.
\* (Under Spec the registry only grows while the process lives, so the
\* entries configured when the call started are among them.)
C27_ServiceCoversEveryEntry ==
    \A t \in Tasks :
        (/\ tasks[t].op = "service" /\ tasks[t].pc = "done"
         /\ tasks[t].idx >= 1 /\ tasks[t].raised = "") =>
            /\ tasks[t].error = ""
            /\ Len(tasks[t].saved) = tasks[t].size
            /\ \A i \in 1..tasks[t].size :
                  /\ tasks[t].saved[i] = hass_data[i].entry_id
                  /\ Cardinality(EventsOf(t, hass_data[i].entry_id)) = 1

-----------------------------------------------------------------------------
(* C24 *)

FormError(base) == [type |-> "form", errors |-> [base |-> base]]

\* C24: in the connection test of the config flow an answer of 401 gives
\* the form error invalid_auth; an instance that answers and whose state is
\* not open gives instance_not_connected; a transport failure or another
\* API failure gives cannot_connect; and an entry is created only when the
\* state of the instance is open.
C24_ConnectionTest ==
    (call.op = "config_flow" /\ call.pc = "done") =>
        /\ (Responded /\ call.response.status = 401) => flow = FormError("invalid_auth")
        /\ (Responded /\ outcome.kind = "return" /\ outcome.value.type = "dict"
                      /\ InstanceState(outcome.value) # "open")
              => flow = FormError("instance_not_connected")
        /\ (call.transport # "none"
             \/ (Responded /\ call.response.status >= 400 /\ call.response.status # 401))
              => flow = FormError("cannot_connect")
        /\ flow.type = "create_entry" =>
              (Responded /\ outcome.kind = "return" /\ InstanceState(outcome.value) = "open")

-----------------------------------------------------------------------------
(* Media player: properties (SpecPlayer) *)

InFlight(i) == player.inv[i].pc \notin {"idle", "done"}

\* C23: async_play_media with a target that is not empty and a media_id that
\* resolves to content results in exactly one send-audio request, a POST to
\* /message/sendWhatsAppAudio whose number is the target and whose audio is
\* the resolved content.
C23_PlayMediaSendsAudio ==
    \A i \in Invocations :
        (/\ player.inv[i].pc = "done"
         /\ TruthyTarget(player.inv[i].target)
         /\ player.inv[i].content # None) =>
            player.inv[i].requests =
                <<BuildRequest("POST", API_ENDPOINT_SEND_AUDIO,
                               SendAudioPayload(player.inv[i].target.v, player.inv[i].content,
                                                NoneInt),
                               TRUE)>>

\* C28: whenever no invocation of async_play_media is in flight the state
\* of the media player is IDLE; an invocation that set PLAYING leaves IDLE
\* behind at its exit; an invocation without a target changes no state and
\* issues no request.
C28_IdleWhenQuiet ==
    /\ []((\A i \in Invocations : ~InFlight(i)) => player.state = IDLE)
    /\ [][\A i \in Invocations :
             (player.inv[i].pc # "done" /\ player'.inv[i].pc = "done") =>
                IF player'.inv[i].exit = "no_target"
                THEN player'.state = player.state /\ wire' = wire
                ELSE player'.state = IDLE]_vars

\* One invocation has ended at the unexpected error and another at the
\* unresolved media, both after the state was PLAYING during their await.
C28_Witness ==
    \E i, j \in Invocations :
        /\ player.inv[i].pc = "done" /\ player.inv[i].exit = "unexpected_error"
        /\ NeedsResolving(player.inv[i].media_id)
        /\ player.inv[j].pc = "done" /\ player.inv[j].exit = "unresolved"
        /\ NeedsResolving(player.inv[j].media_id)
        /\ player.state = IDLE

-----------------------------------------------------------------------------
(* Setup, unload and reload: properties (SpecLifecycle) *)

ServicesRegistered == \A s \in ServiceNames : has_service(services, s)

ServicesChange ==
    \/ DOMAIN services' # DOMAIN services
    \/ \E s \in DOMAIN services : services'[s] # services[s]

\* C29: the services of the integration are registered if and only if the
\* runtime registry holds at least one entry; each has been registered
\* exactly once since it was last removed; and the registrations change
\* only in the setup that puts the first entry into an empty registry and
\* in the unload that empties it.
C29_ServicesIffRegistry ==
    /\ [](IF hass_data # <<>>
          THEN ServicesRegistered /\ \A s \in ServiceNames : services[s] = 1
          ELSE DOMAIN services = {})
    /\ [][ServicesChange =>
             \/ hass_data = <<>> /\ hass_data' # <<>>
             \/ hass_data # <<>> /\ hass_data' = <<>>]_vars

\* One entry has been set up, unloaded and set up again, the other has been
\* set up and unloaded; the services are registered.
C29_Witness ==
    \E e1, e2 \in Entries :
        /\ reads[e1] = 2 /\ setup_pc[e1] = "loaded"
        /\ reads[e2] = 1 /\ setup_pc[e2] = "not_loaded"
        /\ Len(hass_data) = 1
        /\ ServicesRegistered

\* A button refresh is in flight: from the press to the return of async_press.
Refreshing(t) == tasks[t].op = "press" /\ tasks[t].pc \in {"fetch", "flush", "flushed"}

\* C22: a refresh of an entry starts only when the load of the entry's
\* storage has completed and the entry is in the runtime registry; an entry
\* in the registry always has a loaded storage, during a refresh and after
\* it; and every refresh that has started ends, whether the fetch returns,
\* fails or times out and whether the flush succeeds or fails.
C22_Lifecycle ==
    /\ [][\A t \in Tasks, e \in Entries :
             (tasks[t].pc = "idle" /\ tasks'[t].pc = "fetch" /\ tasks'[t].entry = e) =>
                storage[e].loaded /\ InRegistry(e)]_vars
    /\ [](\A e \in Entries : InRegistry(e) => storage[e].loaded)
    /\ \A t \in Tasks : Refreshing(t) ~> (tasks[t].pc = "done" /\ ~Refreshing(t))

\* A refresh of an entry has written the cache, flushed it, fired its event
\* and ended; the entry is set up, with its storage loaded.
C22_Witness ==
    \E t \in Tasks :
        /\ tasks[t].op = "press" /\ tasks[t].pc = "done"
        /\ tasks[t].saved = <<tasks[t].entry>>
        /\ Len(bus) = 1
        /\ setup_pc[tasks[t].entry] = "loaded"
        /\ storage[tasks[t].entry].loaded

\* The groups sensor of entry e handles a groups_updated event in this step.
Handles(e) == sensor[e].added /\ sensor'[e].added /\ sensor'[e].written # sensor[e].written

\* C21: when the groups sensor of an entry has handled a groups_updated
\* event of its entry, delivered once or more than once, its group list is
\* the groups of the entry's state cache and its last-updated value is the
\* groups_last_updated of the cache.
C21_SensorRereadsCache ==
    [][\A e \in Entries :
          Handles(e) =>
             /\ sensor'[e].groups = get_groups(storage'[e])
             /\ sensor'[e].last_updated = get_groups_last_updated(storage'[e])]_vars

====
